---- MODULE Spec2Model ----
(***************************************************************************)
(* Model of nmea2gpx.py: the point grouping generator group_nmea_points,   *)
(* its merge rule get_point, and the part of the GPX writer that turns a   *)
(* grouped point into a track point, driven as process_files drives them   *)
(* for one input file.                                                     *)
(*                                                                         *)
(* A Python Optional is a sequence of length 0 (None) or 1 (the value).    *)
(* A datetime.time / datetime.datetime value is one record                 *)
(* [date, hour, minute, second]; date is None for a datetime.time and      *)
(* holds the calendar date for a datetime.datetime.  The sentence          *)
(* constructors only ever build time(hour, minute, second), so the         *)
(* microsecond component is always 0 and is left out.                      *)
(***************************************************************************)
EXTENDS Integers, Sequences, FiniteSets, TLC

VARIABLES sentences, pos, current_data, points, written, output, track_started, pc,
          files, lines, lpos, strict, run

vars == <<sentences, pos, current_data, points, written, output, track_started, pc,
          files, lines, lpos, strict, run>>

-----------------------------------------------------------------------------
(* Optionals *)

None == <<>>

Some(v) == <<v>>

IsSome(o) == o # <<>>

Abs(x) == IF x < 0 THEN -x ELSE x

RECURSIVE Pow10(_)
Pow10(d) == IF d = 0 THEN 1 ELSE 10 * Pow10(d - 1)

\* A Python float is named by the number it was made from.  A float made
\* from text is named by the decimal number the text denotes, m * 10^-e
\* with m a whole number that is not a multiple of ten (m = 0 and e = 0
\* for the two zeros); the double the program holds is the one nearest to
\* that number, and a number with m below 2^31 names its double without
\* ambiguity.  The infinities and the NaN are values of their own.
Float(neg, m, e) == [kind |-> "finite", neg |-> neg, deg |-> 0, m |-> m, e |-> e]

Infinity(neg) == [kind |-> "inf", neg |-> neg, deg |-> 0, m |-> 0, e |-> 0]

NaN == [kind |-> "nan", neg |-> FALSE, deg |-> 0, m |-> 0, e |-> 0]

\* the float of n units of 10^-d, for a whole number n
RECURSIVE Decimal(_, _)
Decimal(n, d) ==
    IF n < 0 THEN [Decimal(-n, d) EXCEPT !.neg = TRUE]
    ELSE IF n = 0 THEN Float(FALSE, 0, 0)
    ELSE IF n % 10 = 0 THEN Decimal(n \div 10, d - 1)
    ELSE Float(FALSE, n, d)

Thousandths(n) == Decimal(n, 3)

\* A coordinate is named by the two terms of lat_deg + (lat_min / 60): the
\* whole degrees deg and the minutes m * 10^-e, which are below 100.  The
\* double the program holds is the result of the operations that compute
\* the sum from the field of the sentence.
Angle(neg, deg, m, e) == [kind |-> "degrees", neg |-> neg, deg |-> deg, m |-> m, e |-> e]

\* the coordinate of a whole number of degrees
Degrees(d) == Angle(d < 0, Abs(d), 0, 0)

\* -x
Negated(x) == IF x.kind = "nan" THEN x ELSE [x EXCEPT !.neg = ~x.neg]

\* bool(x): every float but the two zeros, which float and decode_degrees
\* name with m = 0 and deg = 0 also when they come of a number that is not
\* zero
IsTrue(x) == x.kind \in {"inf", "nan"} \/ x.m # 0 \/ x.deg # 0

\* an Optional with the operator applied to its value
OptDegrees(o) == IF IsSome(o) THEN Some(Degrees(o[1])) ELSE None

OptThousandths(o) == IF IsSome(o) THEN Some(Thousandths(o[1])) ELSE None

-----------------------------------------------------------------------------
(* Bounds of the model *)

\* longest input file, in decoded sentences
MaxLen == 3

\* times of day used in the inputs are 20:44:15 .. 20:44:(15 + MaxTick)
MaxTick == 2

\* longest input file of the runs over the smaller set of sentences
MaxLongLen == 4

-----------------------------------------------------------------------------
(* Program constants *)

\* default of the time_window parameter, in seconds
time_window == 1

\* the date Python's time.strftime substitutes for a value without a date
StrftimeDefaultDate == <<1900, 1, 1>>

-----------------------------------------------------------------------------
(* Values *)

TimeOfDay(h, m, s) == [date |-> None, hour |-> h, minute |-> m, second |-> s]

\* datetime.datetime.combine(date, time)
combine(d, t) == [date |-> Some(d), hour |-> t.hour, minute |-> t.minute, second |-> t.second]

\* hour * 3600 + minute * 60 + second + microsecond/1000000
SecondsSinceMidnight(t) == t.hour * 3600 + t.minute * 60 + t.second

\* time.strftime("%Y-%m-%dT%H:%M:%S.%fZ"): the rendered date and time-of-day.
\* A datetime.time has no date of its own and renders as 1900-01-01.
strftime(t) ==
    [date   |-> IF IsSome(t.date) THEN t.date[1] ELSE StrftimeDefaultDate,
     hour   |-> t.hour,
     minute |-> t.minute,
     second |-> t.second]

\* A decoded sentence.  id is the identity of the Python object; the fields
\* a sentence type does not have are None.  The measurements that only the
\* extensions block of the writer reads are absent unless set with EXCEPT.
\* A float attribute holds a Float, a coordinate an Angle.
Sentence(ty, tm, dt, lat, lon, alt, ns) ==
    [id |-> 0, type |-> ty, time |-> tm, date |-> dt,
     latitude |-> lat, longitude |-> lon, altitude |-> alt, num_sats |-> ns,
     speed |-> None, course |-> None, mag_var |-> None,
     hdop |-> None, fix_quality |-> None, geoid_height |-> None,
     dgps_update |-> None, dgps_station |-> None,
     mode_fix_type |-> None, pdop |-> None, vdop |-> None, sv_ids |-> <<>>,
     true_track |-> None, mag_track |-> None, speed_knots |-> None, speed_kmh |-> None,
     sat_data |-> <<>>]

\* an RMC with coordinates of whole degrees
RMC(tm, dt, lat, lon) == Sentence("RMC", tm, dt, OptDegrees(lat), OptDegrees(lon), None, None)

\* a GGA with coordinates of whole degrees and an altitude in thousandths
\* of a metre
GGA(tm, lat, lon, alt, ns) ==
    Sentence("GGA", tm, None, OptDegrees(lat), OptDegrees(lon), OptThousandths(alt), ns)

GSA == Sentence("GSA", None, None, None, None, None, None)

VTG == Sentence("VTG", None, None, None, None, None, None)

GSV == Sentence("GSV", None, None, None, None, None, None)

\* a sentence of unknown type: a plain NMEASentence
Unknown == Sentence("TXT", None, None, None, None, None, None)

\* isinstance(sentence, (RMC, GGA))
IsPosition(s) == s.type \in {"RMC", "GGA"}

-----------------------------------------------------------------------------
(* group_nmea_points *)

EmptyData ==
    [rmc |-> None, gga |-> None, gsa |-> None, vtg |-> None, gsv |-> None,
     last_time |-> None, current_date |-> None]

\* StampPending as it would be if only the GGA time were stamped with the
\* RMC date and the RMC time were left a time of day
StampPendingGgaOnly(cd) ==
    IF IsSome(cd.rmc) /\ IsSome(cd.gga)
    THEN LET rmc == cd.rmc[1]
             gga == cd.gga[1]
         IN  IF IsSome(rmc.time) /\ IsSome(rmc.date) /\ IsSome(gga.time)
             THEN [cd EXCEPT
                     !.gga = Some([gga EXCEPT !.time = Some(combine(rmc.date[1], gga.time[1]))])]
             ELSE cd
    ELSE IF IsSome(cd.gga) /\ IsSome(cd.current_date)
    THEN LET gga == cd.gga[1]
         IN  IF IsSome(gga.time)
             THEN [cd EXCEPT
                     !.gga = Some([gga EXCEPT !.time = Some(combine(cd.current_date[1], gga.time[1]))])]
             ELSE cd
    ELSE cd

\* The in-place effect of get_point on the pending sentences: rmc.time and
\* gga.time are overwritten with full timestamps.
StampPending(cd) ==
    IF IsSome(cd.rmc) /\ IsSome(cd.gga)
    THEN LET rmc == cd.rmc[1]
             gga == cd.gga[1]
         IN  IF IsSome(rmc.time) /\ IsSome(rmc.date)
             THEN [cd EXCEPT
                     !.rmc = Some([rmc EXCEPT !.time = Some(combine(rmc.date[1], rmc.time[1]))]),
                     !.gga = IF IsSome(gga.time)
                             THEN Some([gga EXCEPT !.time = Some(combine(rmc.date[1], gga.time[1]))])
                             ELSE cd.gga]
             ELSE cd
    ELSE IF IsSome(cd.gga) /\ IsSome(cd.current_date)
    THEN LET gga == cd.gga[1]
         IN  IF IsSome(gga.time)
             THEN [cd EXCEPT
                     !.gga = Some([gga EXCEPT !.time = Some(combine(cd.current_date[1], gga.time[1]))])]
             ELSE cd
    ELSE cd

\* the dictionary get_point returns
get_point(cd) ==
    LET st == StampPending(cd)
    IN  [rmc |-> st.rmc, gga |-> st.gga, gsa |-> st.gsa, vtg |-> st.vtg, gsv |-> st.gsv]

\* ClearPending as it would be if the pending VTG were kept like GSA and GSV
ClearPendingKeepVtg(cd) ==
    [cd EXCEPT !.rmc = None, !.gga = None, !.last_time = None]

\* the four assignments that follow every yield inside the loop
ClearPending(cd) ==
    [cd EXCEPT !.rmc = None, !.gga = None, !.vtg = None, !.last_time = None]

\* msg_time of the loop body
MsgTime(s) == IF IsPosition(s) THEN s.time ELSE None

\* OutsideWindow as it would be with >= in place of >
OutsideWindowInclusive(msg_time, last_time) ==
    Abs(SecondsSinceMidnight(msg_time) - SecondsSinceMidnight(last_time)) >= time_window

\* the comparison that guards the window flush
OutsideWindow(msg_time, last_time) ==
    Abs(SecondsSinceMidnight(msg_time) - SecondsSinceMidnight(last_time)) > time_window

\* WindowPhase as it would be if the window flush emitted the point and
\* left the pending sentences in place
WindowPhaseNoClear(cd, s) ==
    IF IsPosition(s) /\ IsSome(MsgTime(s)) /\ IsSome(cd.last_time)
       /\ OutsideWindow(MsgTime(s)[1], cd.last_time[1])
    THEN [data |-> cd,
          out  |-> IF IsSome(cd.rmc) \/ IsSome(cd.gga) THEN <<get_point(cd)>> ELSE <<>>]
    ELSE [data |-> cd, out |-> <<>>]

\* first half of the loop body: the window flush
WindowPhase(cd, s) ==
    IF IsPosition(s) /\ IsSome(MsgTime(s)) /\ IsSome(cd.last_time)
       /\ OutsideWindow(MsgTime(s)[1], cd.last_time[1])
    THEN [data |-> ClearPending(cd),
          out  |-> IF IsSome(cd.rmc) \/ IsSome(cd.gga) THEN <<get_point(cd)>> ELSE <<>>]
    ELSE [data |-> cd, out |-> <<>>]

\* BothPending as it would be if a pending sentence of either type sufficed
BothPendingEither(cd) == IsSome(cd.rmc) \/ IsSome(cd.gga)

\* the guard of the flush in the RMC and GGA branches
BothPending(cd) == IsSome(cd.rmc) /\ IsSome(cd.gga)

\* StorePhase as it would be if a sentence without a time of day left the
\* last-seen time alone
StorePhaseKeepTime(cd, s) ==
    IF s.type = "RMC"
    THEN LET fl == BothPending(cd)
             c1 == IF fl THEN ClearPending(cd) ELSE cd
             c2 == [c1 EXCEPT !.rmc = Some(s),
                              !.last_time = IF IsSome(MsgTime(s)) THEN MsgTime(s) ELSE @]
         IN  [data |-> IF IsSome(MsgTime(s)) /\ IsSome(s.date)
                       THEN [c2 EXCEPT !.current_date = s.date]
                       ELSE c2,
              out  |-> IF fl THEN <<get_point(cd)>> ELSE <<>>]
    ELSE IF s.type = "GGA"
    THEN LET fl == BothPending(cd)
             c1 == IF fl THEN ClearPending(cd) ELSE cd
         IN  [data |-> [c1 EXCEPT !.gga = Some(s),
                                  !.last_time = IF IsSome(MsgTime(s)) THEN MsgTime(s) ELSE @],
              out  |-> IF fl THEN <<get_point(cd)>> ELSE <<>>]
    ELSE IF s.type = "GSA" THEN [data |-> [cd EXCEPT !.gsa = Some(s)], out |-> <<>>]
    ELSE IF s.type = "VTG" THEN [data |-> [cd EXCEPT !.vtg = Some(s)], out |-> <<>>]
    ELSE IF s.type = "GSV" THEN [data |-> [cd EXCEPT !.gsv = Some(s)], out |-> <<>>]
    ELSE [data |-> cd, out |-> <<>>]

\* second half of the loop body: store the sentence by type
StorePhase(cd, s) ==
    IF s.type = "RMC"
    THEN LET fl == BothPending(cd)
             c1 == IF fl THEN ClearPending(cd) ELSE cd
             c2 == [c1 EXCEPT !.rmc = Some(s), !.last_time = MsgTime(s)]
         IN  [data |-> IF IsSome(MsgTime(s)) /\ IsSome(s.date)
                       THEN [c2 EXCEPT !.current_date = s.date]
                       ELSE c2,
              out  |-> IF fl THEN <<get_point(cd)>> ELSE <<>>]
    ELSE IF s.type = "GGA"
    THEN LET fl == BothPending(cd)
             c1 == IF fl THEN ClearPending(cd) ELSE cd
         IN  [data |-> [c1 EXCEPT !.gga = Some(s), !.last_time = MsgTime(s)],
              out  |-> IF fl THEN <<get_point(cd)>> ELSE <<>>]
    ELSE IF s.type = "GSA" THEN [data |-> [cd EXCEPT !.gsa = Some(s)], out |-> <<>>]
    ELSE IF s.type = "VTG" THEN [data |-> [cd EXCEPT !.vtg = Some(s)], out |-> <<>>]
    ELSE IF s.type = "GSV" THEN [data |-> [cd EXCEPT !.gsv = Some(s)], out |-> <<>>]
    ELSE [data |-> cd, out |-> <<>>]

\* one iteration of "for sentence in sentences"
LoopBody(cd, s) ==
    LET w  == WindowPhase(cd, s)
        st == StorePhase(w.data, s)
    IN  [data |-> st.data, out |-> w.out \o st.out]

\* FinalFlush as it would be without the test for a pending RMC or GGA
FinalFlushAlways(cd) ==
    [data |-> StampPending(cd), out |-> <<get_point(cd)>>]

\* FinalFlush as it would be if the statements after the loop tested only
\* the pending RMC
FinalFlushRmcOnly(cd) ==
    IF IsSome(cd.rmc)
    THEN [data |-> StampPending(cd), out |-> <<get_point(cd)>>]
    ELSE [data |-> cd, out |-> <<>>]

\* the statements after the loop
FinalFlush(cd) ==
    IF IsSome(cd.rmc) \/ IsSome(cd.gga)
    THEN [data |-> StampPending(cd), out |-> <<get_point(cd)>>]
    ELSE [data |-> cd, out |-> <<>>]

-----------------------------------------------------------------------------
(* Binary floating point *)

\* A whole number of any size is the sequence of its digits in base 32768,
\* the least significant first and the most significant not zero.
Limb == 2 ^ 15

RECURSIVE BigTrim(_)
BigTrim(a) ==
    IF a # <<>> /\ a[Len(a)] = 0 THEN BigTrim(SubSeq(a, 1, Len(a) - 1)) ELSE a

\* the whole number n
BigOf(n) == BigTrim(<<n % Limb, (n \div Limb) % Limb, n \div (Limb * Limb)>>)

RECURSIVE BigValue(_)
BigValue(a) == IF a = <<>> THEN 0 ELSE Head(a) + (Limb * BigValue(Tail(a)))

\* a * c + carry, for c and carry below 65536
RECURSIVE BigTimes(_, _, _)
BigTimes(a, c, carry) ==
    IF a = <<>>
    THEN BigOf(carry)
    ELSE LET Digit(t) == <<t % Limb>> \o BigTimes(Tail(a), c, t \div Limb)
         IN  Digit((Head(a) * c) + carry)

RECURSIVE BigSum(_, _, _)
BigSum(a, b, carry) ==
    IF a = <<>> /\ b = <<>>
    THEN BigOf(carry)
    ELSE LET Digit(t) ==
                 <<t % Limb>> \o BigSum(IF a = <<>> THEN <<>> ELSE Tail(a),
                                        IF b = <<>> THEN <<>> ELSE Tail(b), t \div Limb)
         IN  Digit((IF a = <<>> THEN 0 ELSE Head(a)) + (IF b = <<>> THEN 0 ELSE Head(b)) + carry)

\* the digits of a - b - borrow for a >= b + borrow, zeros at the top included
RECURSIVE BigDifference(_, _, _)
BigDifference(a, b, borrow) ==
    IF a = <<>>
    THEN <<>>
    ELSE LET Digit(t) ==
                 <<t % Limb>> \o BigDifference(Tail(a), IF b = <<>> THEN <<>> ELSE Tail(b),
                                               IF t < 0 THEN 1 ELSE 0)
         IN  Digit(Head(a) - (IF b = <<>> THEN 0 ELSE Head(b)) - borrow)

\* -1, 0 or 1 as a is below, equal to or above b
RECURSIVE BigCompare(_, _)
BigCompare(a, b) ==
    IF Len(a) # Len(b) THEN (IF Len(a) < Len(b) THEN -1 ELSE 1)
    ELSE IF a = <<>> THEN 0
    ELSE IF a[Len(a)] # b[Len(b)] THEN (IF a[Len(a)] < b[Len(b)] THEN -1 ELSE 1)
    ELSE BigCompare(BigTrim(SubSeq(a, 1, Len(a) - 1)), BigTrim(SubSeq(b, 1, Len(b) - 1)))

RECURSIVE BigProduct(_, _)
BigProduct(a, b) ==
    IF b = <<>> THEN <<>>
    ELSE BigTrim(BigSum(BigTimes(a, Head(b), 0), <<0>> \o BigProduct(a, Tail(b)), 0))

RECURSIVE BitLength(_)
BitLength(n) == IF n = 0 THEN 0 ELSE 1 + BitLength(n \div 2)

\* the number of binary digits of a
BigBits(a) == IF a = <<>> THEN 0 ELSE (15 * (Len(a) - 1)) + BitLength(a[Len(a)])

\* a * 2^k
BigShiftLeft(a, k) ==
    IF a = <<>> THEN <<>>
    ELSE [i \in 1..(k \div 15) |-> 0] \o BigTimes(a, 2 ^ (k % 15), 0)

\* the quotient q and the remainder r of a by c, for c below 65536
RECURSIVE BigShort(_, _)
BigShort(a, c) ==
    IF a = <<>> THEN [q |-> <<>>, r |-> 0]
    ELSE LET Step(hi) ==
                 [q |-> <<((hi.r * Limb) + Head(a)) \div c>> \o hi.q,
                  r |-> ((hi.r * Limb) + Head(a)) % c]
         IN  Step(BigShort(Tail(a), c))

\* the quotient q and the remainder r of a by 2^k
BigShiftRight(a, k) ==
    LET Divided(w, t) ==
            [q |-> BigTrim(t.q), r |-> BigTrim(SubSeq(a, 1, w) \o <<t.r>>)]
    IN  IF k \div 15 >= Len(a)
        THEN [q |-> <<>>, r |-> a]
        ELSE Divided(k \div 15, BigShort(SubSeq(a, (k \div 15) + 1, Len(a)), 2 ^ (k % 15)))

\* the quotient of r by d, for r below d * 32768 and a d whose most
\* significant digit is 16384 or more: the quotient of the two leading
\* digits of r by the leading digit of d is it, or exceeds it by 1 or 2
QuotientDigit(r, d) ==
    LET Place(i) == IF i <= Len(r) THEN r[i] ELSE 0
        Fits(q) == BigCompare(BigTrim(BigTimes(d, q, 0)), r) <= 0
        Tried(q) == IF Fits(q) THEN q ELSE IF Fits(q - 1) THEN q - 1 ELSE q - 2
        Estimate(t) == IF t >= Limb THEN Limb - 1 ELSE t
    IN  Tried(Estimate(((Place(Len(d) + 1) * Limb) + Place(Len(d))) \div d[Len(d)]))

\* the quotient q and the remainder r of n by d, for a d whose most
\* significant digit is 16384 or more: long division from the most
\* significant digit of n down, acc being the quotient and the remainder
\* of the digits done
RECURSIVE BigDivideFrom(_, _, _)
BigDivideFrom(n, d, acc) ==
    IF Len(acc.q) = Len(n) THEN acc
    ELSE LET Digit(rest, q) ==
                 [q |-> <<q>> \o acc.q,
                  r |-> BigTrim(BigDifference(rest, BigTimes(d, q, 0), 0))]
             Lower(rest) == Digit(rest, QuotientDigit(rest, d))
         IN  BigDivideFrom(n, d, Lower(BigTrim(<<n[Len(n) - Len(acc.q)]>> \o acc.r)))

BigDivide(n, d) == BigDivideFrom(n, d, [q |-> <<>>, r |-> <<>>])

\* A double is m * 2^x for a whole number m below 2^53 and an x from -1074
\* to 971, with m at least 2^52 unless x is -1074; zero has no digits and
\* x = 0, and inf marks the infinity.  The double nearest to n / d * 2^x
\* for whole numbers n and d above zero, the one with the even m of two
\* that are equally near: the quotient is cut after 53 binary digits, or at
\* the digit of 2^-1074 when that comes first, and a result of 2^1024 or
\* more is the infinity.
Nearest(n, d, x) ==
    LET s == IF BigBits(d) + 56 > BigBits(n) THEN BigBits(d) + 56 - BigBits(n) ELSE 0
        k == 15 - BitLength(d[Len(d)])
        Ranged(m, y) ==
            IF m = <<>> THEN [m |-> <<>>, x |-> 0, inf |-> FALSE]
            ELSE IF BigBits(m) + y > 1024 THEN [m |-> <<>>, x |-> 0, inf |-> TRUE]
            ELSE [m |-> m, x |-> y, inf |-> FALSE]
        Carried(m, y) ==
            IF BigBits(m) = 54 THEN Ranged(BigShiftRight(m, 1).q, y + 1) ELSE Ranged(m, y)
        Cut(c, rest, l) ==
            LET cmp == BigCompare(c.r, BigShiftLeft(<<1>>, l - 1))
            IN  Carried(IF \/ cmp > 0
                           \/ /\ cmp = 0
                              /\ (rest # <<>> \/ (c.q # <<>> /\ c.q[1] % 2 = 1))
                        THEN BigSum(c.q, <<1>>, 0) ELSE c.q,
                        l + x - s)
        Place(l) == IF l + x - s < -1074 THEN s - x - 1074 ELSE l
        Rounded(q, rest) ==
            Cut(BigShiftRight(q, Place(BigBits(q) - 53)), rest, Place(BigBits(q) - 53))
        Quotient(qr) == Rounded(BigTrim(qr.q), qr.r)
    IN  Quotient(BigDivide(BigShiftLeft(n, s + k), BigShiftLeft(d, k)))

RECURSIVE BigPow10(_)
BigPow10(e) == IF e = 0 THEN <<1>> ELSE BigTimes(BigPow10(e - 1), 10, 0)

\* the decimal digits of a whole number, none for zero
DigitChars == <<"0", "1", "2", "3", "4", "5", "6", "7", "8", "9">>

RECURSIVE DigitsOf(_)
DigitsOf(n) == IF n = 0 THEN <<>> ELSE DigitsOf(n \div 10) \o <<DigitChars[(n % 10) + 1]>>

RECURSIVE BigDigits(_)
BigDigits(a) ==
    IF a = <<>> THEN <<>>
    ELSE LET Step(t) == BigDigits(BigTrim(t.q)) \o <<DigitChars[t.r + 1]>>
         IN  Step(BigShort(a, 10))

\* An expression over floats that are not below zero: a literal, the whole
\* part int(a) of an expression, and a * b, a / b, a + b and a - b of two
\* expressions, of which a is not below b in a - b and b is not zero in
\* a / b; no operation is one Python gives no number for (the whole part
\* of an infinity, an infinity less or divided by an infinity, zero times
\* an infinity)
Number(x) == [op |-> "float", x |-> x]

WholePart(a) == [op |-> "int", a |-> a]

Operation(op, a, b) == [op |-> op, a |-> a, b |-> b]

\* int(a): the whole part of a double
Truncation(a) ==
    IF a.x >= 0 THEN BigShiftLeft(a.m, a.x) ELSE BigTrim(BigShiftRight(a.m, -a.x).q)

\* what a + b and a - b are exactly, in units of 2^x
Aligned(op, a, b, x) ==
    [n |-> IF op = "+"
           THEN BigSum(BigShiftLeft(a.m, a.x - x), BigShiftLeft(b.m, b.x - x), 0)
           ELSE BigTrim(BigDifference(BigShiftLeft(a.m, a.x - x), BigShiftLeft(b.m, b.x - x), 0)),
     d |-> <<1>>, x |-> x]

\* what the operation on the doubles a and b is exactly: n / d * 2^x, with
\* 2^1024 standing for what an infinity makes infinite
Combined(op, a, b) ==
    IF a.inf \/ (b.inf /\ op # "/") THEN [n |-> <<1>>, d |-> <<1>>, x |-> 1024]
    ELSE IF b.inf THEN [n |-> <<>>, d |-> <<1>>, x |-> 0]
    ELSE IF op = "*" THEN [n |-> BigProduct(a.m, b.m), d |-> <<1>>, x |-> a.x + b.x]
    ELSE IF op = "/" THEN [n |-> a.m, d |-> b.m, x |-> a.x - b.x]
    ELSE Aligned(op, a, b, IF a.x < b.x THEN a.x ELSE b.x)

\* the double that stands for n / d * 2^x
RoundedOnce(r) ==
    IF BigTrim(r.n) = <<>> THEN [m |-> <<>>, x |-> 0, inf |-> FALSE]
    ELSE Nearest(BigTrim(r.n), r.d, r.x)

\* the double an expression has on the machine: that of a literal is the
\* nearest to its decimal digits, and every operation is done on the
\* doubles of its operands and rounded once
RECURSIVE Evaluate(_)
Exact(t) ==
    IF t.op = "float"
    THEN IF t.x.kind = "inf" THEN [n |-> <<1>>, d |-> <<1>>, x |-> 1024]
         ELSE IF t.x.e >= 0
         THEN [n |-> BigOf(t.x.m), d |-> BigPow10(t.x.e), x |-> 0]
         ELSE [n |-> BigProduct(BigOf(t.x.m), BigPow10(-t.x.e)), d |-> <<1>>, x |-> 0]
    ELSE IF t.op = "int"
    THEN [n |-> Truncation(Evaluate(t.a)), d |-> <<1>>, x |-> 0]
    ELSE Combined(t.op, Evaluate(t.a), Evaluate(t.b))

Evaluate(t) == RoundedOnce(Exact(t))

\* the whole number of units of 10^-d nearest to the double a, the even one
\* of two that are equally near: the digits f"{a:.df}" prints
Rounding(a, d) ==
    LET Half(c, l) ==
            LET cmp == BigCompare(c.r, BigShiftLeft(<<1>>, l - 1))
            IN  IF cmp > 0 \/ (cmp = 0 /\ c.q # <<>> /\ c.q[1] % 2 = 1)
                THEN BigSum(c.q, <<1>>, 0) ELSE c.q
        Units(n) ==
            IF a.x >= 0 THEN BigShiftLeft(n, a.x)
            ELSE Half(BigShiftRight(n, -a.x), -a.x)
    IN  Units(BigProduct(a.m, BigPow10(d)))

-----------------------------------------------------------------------------
(* Formatting *)

\* k zeros, none for a k below one
Zeros(k) == IF k > 0 THEN [i \in 1..k |-> "0"] ELSE <<>>

\* the text of a number of d decimals: the sign, the digits of the whole
\* number of units of 10^-d with zeros before them up to d + 1 digits, and
\* the point before the last d of them
FixedText(neg, digits, d) ==
    LET Pointed(all) ==
            SubSeq(all, 1, Len(all) - d) \o <<".">> \o SubSeq(all, Len(all) - d + 1, Len(all))
    IN  (IF neg THEN <<"-">> ELSE <<>>)
        \o Pointed(Zeros(d + 1 - Len(digits)) \o digits)

\* the expression of the coordinate a: lat = float(field), lat_deg =
\* int(lat / 100), lat_min = lat - (lat_deg * 100) and
\* lat_deg + (lat_min / 60)
DegreesExpression(a) ==
    LET lat == Number(Float(FALSE, (IF a.deg = 0 THEN 0 ELSE a.deg * Pow10(a.e + 2)) + a.m, a.e))
        lat_deg == WholePart(Operation("/", lat, Number(Decimal(100, 0))))
        lat_min == Operation("-", lat, Operation("*", lat_deg, Number(Decimal(100, 0))))
    IN  Operation("+", lat_deg, Operation("/", lat_min, Number(Decimal(60, 0))))

\* the first k decimals of r / d, as a whole number f, and what remains
RECURSIVE Decimals(_, _, _)
Decimals(r, d, k) ==
    IF k = 0 THEN [f |-> 0, r |-> r]
    ELSE LET Longer(t) == [f |-> (10 * t.f) + ((10 * t.r) \div d), r |-> (10 * t.r) % d]
         IN  Longer(Decimals(r, d, k - 1))

\* f"{x:.df}" for a coordinate below 1000 degrees of at most six decimals
\* in its minutes, printed with more decimals than the minutes have: a
\* sixtieth of them is never halfway between two numbers of d decimals,
\* and further from halfway than the double is from the sum it stands for
DegreesText(x, d) ==
    LET Carried(whole, f) ==
            IF f = Pow10(d) THEN FixedText(x.neg, DigitsOf(whole + 1) \o Zeros(d), d)
            ELSE FixedText(x.neg,
                           DigitsOf(whole)
                           \o Zeros(d - Len(DigitsOf(f))) \o DigitsOf(f), d)
        Rounded(whole, t, unit) == Carried(whole, IF 2 * t.r > unit THEN t.f + 1 ELSE t.f)
        Divided(n, unit) == Rounded(n \div unit, Decimals(n % unit, unit, d), unit)
    IN  Divided((x.deg * 6 * Pow10(x.e + 1)) + x.m, 6 * Pow10(x.e + 1))

\* the text of an infinity and of a NaN
NamedText(x) ==
    IF x.kind = "nan" THEN <<"n", "a", "n">>
    ELSE (IF x.neg THEN <<"-">> ELSE <<>>) \o <<"i", "n", "f">>

\* f"{x:.df}".  A decimal number of d decimals or fewer that prints with
\* fifteen digits or fewer prints as it is, a number below a tenth of the
\* last decimal prints as zero, and any other is printed from the binary
\* digits of its double.
format(x, d) ==
    IF x.kind \in {"nan", "inf"} THEN NamedText(x)
    ELSE IF x.m = 0 THEN FixedText(x.neg, DigitsOf(x.deg) \o Zeros(d), d)
    ELSE IF x.kind = "degrees" /\ x.deg < 1000 /\ x.e < 7 /\ x.e + 1 < d /\ d <= 8
    THEN DegreesText(x, d)
    ELSE IF x.kind = "finite" /\ x.e <= d /\ Len(DigitsOf(x.m)) + (d - x.e) <= 15
    THEN FixedText(x.neg, DigitsOf(x.m) \o Zeros(d - x.e), d)
    ELSE IF x.deg = 0 /\ x.e - d > 12 THEN FixedText(x.neg, <<>>, d)
    ELSE FixedText(x.neg,
                   BigDigits(Rounding(Evaluate(IF x.kind = "degrees"
                                               THEN DegreesExpression(x)
                                               ELSE Number(x)), d)), d)

\* f"{y:.df}" for the double y that is the float x times or divided by a
\* literal between a tenth and ten: an infinity, a NaN and a zero stay
\* what they are
Scaled(x, y, d) ==
    IF x.kind \in {"nan", "inf"} THEN NamedText(x)
    ELSE IF x.m = 0 \/ x.e - d > 12 THEN FixedText(x.neg, <<>>, d)
    ELSE FixedText(x.neg, BigDigits(Rounding(y, d)), d)

-----------------------------------------------------------------------------
(* GPXWriter *)

\* One line written to the output file by write_line.  Structural tags
\* carry no data; a trkpt line carries its lat and lon attributes; every
\* other data line carries its value in val.
Elem(tag) == [tag |-> tag, lat |-> None, lon |-> None, val |-> None]

\* a line <tag>value</tag>
Val(tag, v) == [Elem(tag) EXCEPT !.val = Some(v)]

\* __enter__ followed by start_track(): the XML declaration and the start
\* tag of the root, written by __enter__, then the start tags of the track
\* and of its segment, written by start_track, which is called without a
\* name
HeaderElems == <<Elem("?xml"), Elem("gpx"), Elem("trk"), Elem("trkseg")>>

\* end_track()
EndTrackElems == <<Elem("/trkseg"), Elem("/trk")>>

\* the truth value Python gives an Optional int: present and not zero
Truthy(o) == IsSome(o) /\ o[1] # 0

\* the truth value Python gives an Optional float
TruthyFloat(o) == IsSome(o) /\ IsTrue(o[1])

\* the text f"{o:.df}" of an Optional float that is present
Formatted(o, d) == IF IsSome(o) THEN Some(format(o[1], d)) ELSE None

\* speed_ms = rmc.speed * 0.514444 and f"{speed_ms:.3f}"
KnotsToMs(x) ==
    Scaled(x, Evaluate(Operation("*", Number(x), Number(Decimal(514444, 6)))), 3)

\* speed_ms = vtg.speed_kmh / 3.6 and f"{speed_ms:.3f}"
KmhToMs(x) ==
    Scaled(x, Evaluate(Operation("/", Number(x), Number(Decimal(36, 1)))), 3)

\* the test that decides whether the TrackPointExtension block is written
has_tpx_data(p) ==
    \/ (IsSome(p.rmc) /\ TruthyFloat(p.rmc[1].speed))
    \/ (IsSome(p.vtg) /\ TruthyFloat(p.vtg[1].true_track))
    \/ (IsSome(p.gsa) /\ TruthyFloat(p.gsa[1].hdop))
    \/ (IsSome(p.gga) /\ TruthyFloat(p.gga[1].hdop))

\* the speed, course and hdop lines of the TrackPointExtension block
TpxSpeed(p) ==
    IF IsSome(p.rmc) /\ TruthyFloat(p.rmc[1].speed)
    THEN <<Val("gpxtpx:speed", KnotsToMs(p.rmc[1].speed[1]))>>
    ELSE IF IsSome(p.vtg) /\ TruthyFloat(p.vtg[1].speed_kmh)
    THEN <<Val("gpxtpx:speed", KmhToMs(p.vtg[1].speed_kmh[1]))>>
    ELSE <<>>

TpxCourse(p) ==
    IF IsSome(p.rmc) /\ TruthyFloat(p.rmc[1].course)
    THEN <<Val("gpxtpx:course", format(p.rmc[1].course[1], 2))>>
    ELSE IF IsSome(p.vtg) /\ TruthyFloat(p.vtg[1].true_track)
    THEN <<Val("gpxtpx:course", format(p.vtg[1].true_track[1], 2))>>
    ELSE <<>>

TpxHdop(p) ==
    IF IsSome(p.gsa) /\ TruthyFloat(p.gsa[1].hdop)
    THEN <<Val("gpxtpx:hdop", format(p.gsa[1].hdop[1], 2))>>
    ELSE IF IsSome(p.gga) /\ TruthyFloat(p.gga[1].hdop)
    THEN <<Val("gpxtpx:hdop", format(p.gga[1].hdop[1], 2))>>
    ELSE <<>>

\* a line written only for a present, non-zero int
ValIf(tag, o) == IF Truthy(o) THEN <<Val(tag, o[1])>> ELSE <<>>

\* a line written only for a present, non-zero float, with d decimals
ValIfFloat(tag, o, d) == IF TruthyFloat(o) THEN <<Val(tag, format(o[1], d))>> ELSE <<>>

\* a line written for a present value, zero included
ValIfPresent(tag, o) == IF IsSome(o) THEN <<Val(tag, o[1])>> ELSE <<>>

write_rmc_extensions(rmc) == ValIfFloat("nmea:magvar", rmc.mag_var, 2)

write_gga_extensions(gga) ==
    ValIf("nmea:fix_quality", gga.fix_quality)
    \o (IF TruthyFloat(gga.altitude) /\ TruthyFloat(gga.geoid_height)
        THEN <<Val("nmea:geoid_height", format(gga.geoid_height[1], 3))>> ELSE <<>>)
    \o ValIfFloat("nmea:dgps_age", gga.dgps_update, 1)
    \o ValIf("nmea:dgps_station", gga.dgps_station)

write_gsa_extensions(gsa) ==
    ValIf("nmea:fix_type", gsa.mode_fix_type)
    \o ValIfFloat("nmea:pdop", gsa.pdop, 2)
    \o ValIfFloat("nmea:vdop", gsa.vdop, 2)
    \o (IF gsa.sv_ids # <<>> THEN <<Val("nmea:active_sats", gsa.sv_ids)>> ELSE <<>>)

write_vtg_extensions(vtg) ==
    ValIfFloat("nmea:mag_track", vtg.mag_track, 2)
    \o ValIfFloat("nmea:speed_knots", vtg.speed_knots, 3)

\* the lines of one satellite descriptor
SatElems(sat) ==
    <<Elem("nmea:sat"), Val("nmea:prn", sat.prn)>>
    \o ValIfPresent("nmea:elevation", sat.elevation)
    \o ValIfPresent("nmea:azimuth", sat.azimuth)
    \o ValIfPresent("nmea:snr", sat.snr)
    \o <<Elem("/nmea:sat")>>

RECURSIVE SatListElems(_)
SatListElems(sats) ==
    IF sats = <<>> THEN <<>> ELSE SatElems(Head(sats)) \o SatListElems(Tail(sats))

write_gsv_extensions(gsv) ==
    IF gsv.sat_data # <<>>
    THEN <<Elem("nmea:satellites")>>
         \o SatListElems(SubSeq(gsv.sat_data, 1, IF Len(gsv.sat_data) < 4 THEN Len(gsv.sat_data) ELSE 4))
         \o <<Elem("/nmea:satellites")>>
    ELSE <<>>

\* _write_extensions: the extensions block and the end of the track point
write_extensions(p) ==
    <<Elem("extensions")>>
    \o (IF has_tpx_data(p)
        THEN <<Elem("gpxtpx:TrackPointExtension")>>
             \o TpxSpeed(p) \o TpxCourse(p) \o TpxHdop(p)
             \o <<Elem("/gpxtpx:TrackPointExtension")>>
        ELSE <<>>)
    \o (IF IsSome(p.rmc) THEN write_rmc_extensions(p.rmc[1]) ELSE <<>>)
    \o (IF IsSome(p.gga) THEN write_gga_extensions(p.gga[1]) ELSE <<>>)
    \o (IF IsSome(p.gsa) THEN write_gsa_extensions(p.gsa[1]) ELSE <<>>)
    \o (IF IsSome(p.vtg) THEN write_vtg_extensions(p.vtg[1]) ELSE <<>>)
    \o (IF IsSome(p.gsv) THEN write_gsv_extensions(p.gsv[1]) ELSE <<>>)
    \o <<Elem("/extensions"), Elem("/trkpt")>>

\* PositionSource as it would be if the GGA were preferred
PositionSourceGgaFirst(p) == IF IsSome(p.gga) THEN p.gga[1] ELSE p.rmc[1]

\* the position source add_trackpoint selects: rmc if rmc else gga
PositionSource(p) == IF IsSome(p.rmc) THEN p.rmc[1] ELSE p.gga[1]

\* the trkpt line of a point
TrackPointElem(src) ==
    [Elem("trkpt") EXCEPT !.lat = Formatted(src.latitude, 8),
                          !.lon = Formatted(src.longitude, 8)]

\* the lines of the ele, time and sat children of a trkpt, each written by
\* a write_line of its own
ChildElems(p, src) ==
    (IF IsSome(p.gga) /\ IsSome(p.gga[1].altitude)
     THEN <<Val("ele", format(p.gga[1].altitude[1], 3))>> ELSE <<>>)
    \o (IF IsSome(src.time) THEN <<Val("time", strftime(src.time[1]))>> ELSE <<>>)
    \o (IF IsSome(p.gga) /\ Truthy(p.gga[1].num_sats)
        THEN <<Val("sat", p.gga[1].num_sats[1])>> ELSE <<>>)

\* add_trackpoint as it would be if only the latitude were tested
add_trackpointLatOnly(p) ==
    IF ~(IsSome(p.rmc) \/ IsSome(p.gga))
    THEN <<>>
    ELSE LET src == PositionSource(p)
         IN  IF src.latitude = None
             THEN <<>>
             ELSE <<TrackPointElem(src)>> \o ChildElems(p, src) \o write_extensions(p)

\* add_trackpoint: the lines appended to the file for one point
add_trackpoint(p) ==
    IF ~(IsSome(p.rmc) \/ IsSome(p.gga))
    THEN <<>>
    ELSE LET src == PositionSource(p)
         IN  IF src.latitude = None \/ src.longitude = None
             THEN <<>>
             ELSE <<TrackPointElem(src)>> \o ChildElems(p, src) \o write_extensions(p)

-----------------------------------------------------------------------------
(* Inputs *)

\* 29 April 2025, the date of the RMC sentences of the valid-data test
TestDate == <<2025, 4, 29>>

\* the time of day 20:44:15 + k seconds
Tick(k) == TimeOfDay(20, 44, 15 + k)

Times == {Tick(k) : k \in 0..MaxTick}

OptTimes == {None} \cup {Some(t) : t \in Times}

\* RMC sentences: a dated sentence with a position at every time and
\* without a time, an undated one, a dated and timed one without position
\* and one with a latitude only (its longitude was out of range), and the
\* empty sentence of a searching receiver
RMCShapes ==
    {RMC(t, Some(TestDate), Some(1), Some(1)) : t \in OptTimes}
    \cup {RMC(Some(Tick(0)), None, Some(1), Some(1)),
          RMC(Some(Tick(0)), Some(TestDate), None, None),
          RMC(Some(Tick(0)), Some(TestDate), Some(1), None),
          RMC(None, None, None, None)}

\* GGA sentences: every time with a position and an altitude, and sentences
\* without position, timed and untimed (the searching receiver)
GGAShapes ==
    {GGA(t, Some(2), Some(2), Some(-131), Some(8)) : t \in OptTimes}
    \cup {GGA(Some(Tick(0)), None, None, None, Some(0)),
          GGA(None, None, None, None, Some(0))}

Shapes == RMCShapes \cup GGAShapes \cup {GSA, VTG, GSV, Unknown}

\* the sentences of the longer runs: two times further apart than the
\* window for each position type, an untimed GGA, and the sentences that
\* carry no time
LongShapes ==
    {RMC(Some(Tick(k)), Some(TestDate), Some(1), Some(1)) : k \in {0, MaxTick}}
    \cup {GGA(Some(Tick(k)), Some(2), Some(2), Some(-131), Some(8)) : k \in {0, MaxTick}}
    \cup {GGA(None, None, None, None, Some(0)), GSA, VTG, GSV, Unknown}

\* every sentence of an input is its own object
WithIds(q) == [i \in 1..Len(q) |-> [q[i] EXCEPT !.id = i]]

Inputs == {WithIds(q) : q \in UNION {[1..n -> Shapes] : n \in 0..MaxLen}}

LongInputs == {WithIds(q) : q \in UNION {[1..n -> LongShapes] : n \in 0..MaxLongLen}}

\* gps_valid_data of the test suite, as parse_nmea_stream decodes it:
\*   $GNGGA,204415.00,5222.81631,N,00453.44115,E,1,08,1.69,-13.1,M,45.9,M,,*59
\*   $GNGSA,A,3,07,11,06,20,,,,,,,,,5.54,1.69,5.28*1A
\*   $GNGSA,A,3,71,86,80,87,,,,,,,,,5.54,1.69,5.28*16
\*   $GNRMC,204416.00,A,5222.81586,N,00453.44075,E,0.947,,290425,,,A*6C
\*   $GNVTG,,T,,M,0.947,N,1.753,K,A*37
\*   $GNGGA,204416.00,5222.81586,N,00453.44075,E,1,08,1.69,-13.3,M,45.9,M,,*50
\*   $GNGSA,A,3,07,11,06,20,,,,,,,,,5.54,1.69,5.27*15
\*   $GNGSA,A,3,71,86,80,87,,,,,,,,,5.54,1.69,5.27*19
\*   $GNRMC,204417.00,A,5222.81530,N,00453.44076,E,0.654,,290425,,,A*6E
\*   $GNVTG,,T,,M,0.654,N,1.212,K,A*3A
\* Every GGA has fix quality 1, 8 satellites, a horizontal dilution of 1.69
\* and a geoid height of 45.9 m; every RMC is of 29 April 2025 and has no
\* course; every GSA is a 3D fix with dilutions 5.54, 1.69 and vd; the VTG
\* have no track, a speed in knots and one in km/h.
ValidData ==
    LET ValidGGA(tm, lat, lon, alt) ==
            [Sentence("GGA", Some(tm), None, Some(lat), Some(lon), Some(alt), Some(8))
                EXCEPT !.fix_quality = Some(1), !.hdop = Some(Decimal(169, 2)),
                       !.geoid_height = Some(Decimal(459, 1))]
        ValidRMC(tm, lat, lon, sp) ==
            [Sentence("RMC", Some(tm), Some(TestDate), Some(lat), Some(lon), None, None)
                EXCEPT !.speed = Some(sp)]
        ValidGSA(ids, vd) ==
            [GSA EXCEPT !.mode_fix_type = Some(3), !.sv_ids = ids,
                        !.pdop = Some(Decimal(554, 2)), !.hdop = Some(Decimal(169, 2)),
                        !.vdop = Some(vd)]
        ValidVTG(kn, kmh) == [VTG EXCEPT !.speed_knots = Some(kn), !.speed_kmh = Some(kmh)]
    IN  WithIds(<<
            ValidGGA(Tick(0), Angle(FALSE, 52, 2281631, 5), Angle(FALSE, 4, 5344115, 5),
                     Decimal(-131, 1)),
            ValidGSA(<<7, 11, 6, 20>>, Decimal(528, 2)),
            ValidGSA(<<71, 86, 80, 87>>, Decimal(528, 2)),
            ValidRMC(Tick(1), Angle(FALSE, 52, 2281586, 5), Angle(FALSE, 4, 5344075, 5),
                     Decimal(947, 3)),
            ValidVTG(Decimal(947, 3), Decimal(1753, 3)),
            ValidGGA(Tick(1), Angle(FALSE, 52, 2281586, 5), Angle(FALSE, 4, 5344075, 5),
                     Decimal(-133, 1)),
            ValidGSA(<<7, 11, 6, 20>>, Decimal(527, 2)),
            ValidGSA(<<71, 86, 80, 87>>, Decimal(527, 2)),
            ValidRMC(Tick(2), Angle(FALSE, 52, 228153, 4), Angle(FALSE, 4, 5344076, 5),
                     Decimal(654, 3)),
            ValidVTG(Decimal(654, 3), Decimal(1212, 3)) >>)

\* gps_searching_data of the test suite, as parse_nmea_stream decodes it:
\*   $GNGGA,,,,,,0,00,99.99,,,,,,*56
\*   $GNGSA,A,1,,,,,,,,,,,,,99.99,99.99,99.99*2E     (twice)
\*   $GNRMC,,V,,,,,,,,,,N*4D
\*   $GNVTG,,,,,,,,,N*2E
\*   $GNGGA,,,,,,0,00,99.99,,,,,,*56
\*   $GNGSA,A,1,,,,,,,,,,,,,99.99,99.99,99.99*2E     (twice)
\* The GGA has no fix, no satellite and a dilution of 99.99, the GSA fix
\* type 1 and every dilution 99.99, the RMC and the VTG no value at all.
SearchingData ==
    LET SearchingGGA ==
            [GGA(None, None, None, None, Some(0))
                EXCEPT !.fix_quality = Some(0), !.hdop = Some(Decimal(9999, 2))]
        SearchingGSA ==
            [GSA EXCEPT !.mode_fix_type = Some(1), !.pdop = Some(Decimal(9999, 2)),
                        !.hdop = Some(Decimal(9999, 2)), !.vdop = Some(Decimal(9999, 2))]
    IN  WithIds(<< SearchingGGA, SearchingGSA, SearchingGSA,
                   RMC(None, None, None, None),
                   VTG,
                   SearchingGGA, SearchingGSA, SearchingGSA >>)

\* the two files of setUpClass
TestInputs == {ValidData, SearchingData}

-----------------------------------------------------------------------------
(* process_files, for one input file *)

\* The arguments and local variables of process_files that only a run over
\* several files with failures uses: sorted_files, the file being read and
\* whether its stream raises where its sentences end, the output device,
\* delete_source, whether a backup_path was given and what became of the
\* backup, processed_files, conversion_successful, the files the handler
\* of a pass logged an error for and the files that delete_source_files
\* unlinked.  This is their value for a single file that is read to its
\* end.
NoRun ==
    [sorted_files |-> <<>>, file |-> 0, failing |-> FALSE, device |-> "ok",
     delete_source |-> FALSE, backup_path |-> FALSE, backup |-> "",
     processed_files |-> <<>>, conversion_successful |-> FALSE, errors |-> <<>>,
     deleted |-> <<>>]

\* the input file: any short sequence of sentences, or a file of the test suite
Init ==
    /\ sentences \in Inputs \cup TestInputs
    /\ pos = 0
    /\ current_data = EmptyData
    /\ points = <<>>
    /\ written = 0
    /\ output = <<>>
    /\ track_started = FALSE
    /\ pc = "start"
    /\ files = <<>>
    /\ lines = <<>> /\ lpos = 0 /\ strict = FALSE
    /\ run = NoRun

InitLong ==
    /\ sentences \in LongInputs
    /\ pos = 0
    /\ current_data = EmptyData
    /\ points = <<>>
    /\ written = 0
    /\ output = <<>>
    /\ track_started = FALSE
    /\ pc = "start"
    /\ files = <<>>
    /\ lines = <<>> /\ lpos = 0 /\ strict = FALSE
    /\ run = NoRun

\* with GPXWriter(...) as writer: writer.start_track()
Enter ==
    /\ pc = "start"
    /\ output' = HeaderElems
    /\ track_started' = TRUE
    /\ pc' = "group"
    /\ UNCHANGED <<sentences, pos, current_data, points, written, files, lines, lpos, strict, run>>

\* The generator takes the next sentence and runs the iteration of its
\* loop up to the yield, where it is suspended with the pending sentences
\* as get_point left them, or, when the iteration yields nothing, to its
\* end.
GroupNext ==
    /\ pc = "group"
    /\ written = Len(points)
    /\ pos < Len(sentences)
    /\ LET Run(r) ==
               IF r.out = <<>>
               THEN /\ current_data' = r.data
                    /\ points' = points
                    /\ pc' = "group"
               ELSE /\ current_data' = StampPending(current_data)
                    /\ points' = points \o r.out
                    /\ pc' = "yield"
       IN  Run(LoopBody(current_data, sentences[pos + 1]))
    /\ pos' = pos + 1
    /\ UNCHANGED <<sentences, written, output, track_started, files, lines, lpos, strict, run>>

\* The consumer has written the point and resumes the generator, which
\* runs the rest of the iteration: the four assignments after the yield,
\* then the statements that store the sentence.
GroupResume ==
    /\ pc = "yield"
    /\ written = Len(points)
    /\ current_data' = StorePhase(ClearPending(current_data), sentences[pos]).data
    /\ pc' = "group"
    /\ UNCHANGED <<sentences, pos, points, written, output, track_started,
                   files, lines, lpos, strict, run>>

\* the input is exhausted: the generator runs the statements after its loop
GroupFinish ==
    /\ pc = "group"
    /\ written = Len(points)
    /\ pos = Len(sentences)
    /\ LET r == FinalFlush(current_data)
       IN  /\ current_data' = r.data
           /\ points' = points \o r.out
    /\ pc' = "exhausted"
    /\ UNCHANGED <<sentences, pos, written, output, track_started, files, lines, lpos, strict, run>>

\* the body of "for point in group_nmea_points(sentences)"
AddTrackpoint ==
    /\ pc \in {"yield", "exhausted"}
    /\ written < Len(points)
    /\ output' = output \o add_trackpoint(points[written + 1])
    /\ written' = written + 1
    /\ UNCHANGED <<sentences, pos, current_data, points, track_started, pc, files, lines, lpos, strict, run>>

\* GPXWriter.__exit__
Exit ==
    /\ pc = "exhausted"
    /\ written = Len(points)
    /\ files = <<>>
    /\ output' = output \o (IF track_started THEN EndTrackElems ELSE <<>>) \o <<Elem("/gpx")>>
    /\ track_started' = FALSE
    /\ pc' = "done"
    /\ UNCHANGED <<sentences, pos, current_data, points, written, files, lines, lpos, strict, run>>

Next == Enter \/ GroupNext \/ GroupResume \/ GroupFinish \/ AddTrackpoint \/ Exit

Spec == Init /\ [][Next]_vars

\* the same program on longer inputs over fewer sentences
SpecLong == InitLong /\ [][Next]_vars

\* a sequential program keeps running until it returns
LiveSpec == InitLong /\ [][Next]_vars /\ WF_vars(Next)

-----------------------------------------------------------------------------
(* process_files, for several input files *)

\* the largest number of input files
MaxFiles == 3

\* the files on disk, by name.  The names stand for paths and their order
\* for the order of paths.  A file that cannot be read makes
\* parse_nmea_stream raise before it yields anything; a file that is not
\* removable makes unlink raise.
Disk ==
    << [readable |-> TRUE, removable |-> TRUE,
        content  |-> << RMC(Some(Tick(0)), Some(TestDate), Some(11), Some(12)),
                        GGA(Some(Tick(0)), Some(11), Some(12), Some(-131), Some(8)) >>],
       [readable |-> TRUE, removable |-> TRUE,
        content  |-> << RMC(Some(Tick(0)), Some(TestDate), None, None),
                        GGA(Some(Tick(0)), Some(21), Some(22), Some(-131), Some(8)) >>],
       [readable |-> TRUE, removable |-> TRUE,
        content  |-> << RMC(Some(Tick(0)), Some(TestDate), Some(31), Some(32)),
                        VTG,
                        RMC(Some(Tick(MaxTick)), Some(TestDate), Some(33), Some(34)) >>],
       [readable |-> FALSE, removable |-> TRUE,
        content  |-> << RMC(Some(Tick(0)), Some(TestDate), Some(41), Some(42)) >>],
       [readable |-> TRUE, removable |-> FALSE,
        content  |-> << GGA(Some(Tick(0)), Some(51), Some(52), Some(7), Some(8)) >>] >>

FileNames == 1..Len(Disk)

\* the sentences that pass number k of the loop over the files reads from
\* file n: every pass makes new objects, and object number i of pass k has
\* identity 10 * k + i
Load(k, n) ==
    IF Disk[n].readable
    THEN [i \in 1..Len(Disk[n].content) |-> [Disk[n].content[i] EXCEPT !.id = 10 * k + i]]
    ELSE <<>>

\* the number of names of q that are not above n
Rank(q, n) == Cardinality({i \in 1..Len(q) : q[i] <= n})

\* sorted(input_files): place k holds the least name that, with the names
\* below it, fills k places; a name listed twice stays twice
sorted(q) ==
    [k \in 1..Len(q) |->
        CHOOSE n \in {q[i] : i \in 1..Len(q)} :
            /\ Rank(q, n) >= k
            /\ \A m \in {q[i] : i \in 1..Len(q)} : Rank(q, m) >= k => n <= m]

\* the lists expand_input_patterns returns, in the order the patterns
\* produce them: a file that several patterns match is listed once for
\* each, and the list is empty when no pattern matches a file
FileLists == UNION {[1..n -> FileNames] : n \in 0..MaxFiles}

\* the largest number of input files of a run on a faulty output device,
\* where every write can raise
MaxFaultyFiles == MaxFiles - 1

\* the number of the pass the loop over the files makes next
NextPass == Len(run.sorted_files) - Len(files) + 1

\* the writer is about to be opened; the first of the sorted files is the
\* input of the first pass of the loop over the files.  With an empty list
\* process_files has raised ValueError before it opened anything.
InitFiles ==
    /\ \E q \in FileLists :
         LET Sorted(l) ==
                 /\ run = [NoRun EXCEPT !.sorted_files = l]
                 /\ IF l = <<>>
                    THEN sentences = <<>> /\ files = <<>> /\ pc = "raised"
                    ELSE sentences = Load(1, Head(l)) /\ files = Tail(l) /\ pc = "start"
         IN  Sorted(sorted(q))
    /\ pos = 0
    /\ current_data = EmptyData
    /\ points = <<>>
    /\ written = 0
    /\ output = <<>>
    /\ track_started = FALSE
    /\ lines = <<>> /\ lpos = 0 /\ strict = FALSE

\* NextFile as it would be if one accumulator served every file
NextFileCarry ==
    /\ pc = "exhausted"
    /\ written = Len(points)
    /\ files # <<>>
    /\ sentences' = Load(NextPass, Head(files))
    /\ files' = Tail(files)
    /\ pos' = 0
    /\ pc' = "group"
    /\ UNCHANGED <<current_data, points, written, output, track_started, lines, lpos, strict, run>>

\* the next pass of "for input_file in sorted_files": a new stream and a
\* new generator, with its own accumulator, over the next file
NextFile ==
    /\ pc = "exhausted"
    /\ written = Len(points)
    /\ files # <<>>
    /\ sentences' = Load(NextPass, Head(files))
    /\ files' = Tail(files)
    /\ pos' = 0
    /\ current_data' = EmptyData
    /\ pc' = "group"
    /\ UNCHANGED <<points, written, output, track_started, lines, lpos, strict, run>>

NextFiles == Next \/ NextFile

SpecFiles == InitFiles /\ [][NextFiles]_vars

-----------------------------------------------------------------------------
(* process_files, for several input files that may fail, with the backup
   and the deletion of the source files *)

\* The arguments are any list of files, delete_source and whether there is
\* a backup_path; the output device either takes every write or is faulty,
\* and then any write and the opening and closing of the file may raise;
\* a run on a faulty device is over at most MaxFaultyFiles files.
\* Nothing is open yet; with an empty list process_files has raised
\* ValueError before it opened anything.
InitRun ==
    /\ \E q \in FileLists, d \in {"ok", "faulty"}, ds \in BOOLEAN, bp \in BOOLEAN :
         LET Sorted(l) ==
                 /\ d = "faulty" => Len(l) <= MaxFaultyFiles
                 /\ files = l
                 /\ run = [NoRun EXCEPT !.sorted_files = l, !.device = d,
                                        !.delete_source = ds, !.backup_path = bp]
                 /\ pc = IF l = <<>> THEN "raised" ELSE "start"
         IN  Sorted(sorted(q))
    /\ sentences = <<>>
    /\ pos = 0
    /\ current_data = EmptyData
    /\ points = <<>>
    /\ written = 0
    /\ output = <<>>
    /\ track_started = FALSE
    /\ lines = <<>> /\ lpos = 0 /\ strict = FALSE

\* with GPXWriter(...) as writer: writer.start_track(), before the loop
\* over the files
Open ==
    /\ pc = "start"
    /\ output' = HeaderElems
    /\ track_started' = TRUE
    /\ pc' = "next"
    /\ UNCHANGED <<sentences, pos, current_data, points, written, files, lines, lpos, strict, run>>

\* The with statement raises on a faulty device, and the outer handler
\* raises the exception again.  Before the loop over the files, __enter__
\* raises with nothing written or with the XML declaration alone, and
\* __exit__ is not called; or start_track raises at its first or its
\* second write and __exit__, which finds no track started, writes the end
\* tag of the root or raises in turn.  After the loop __exit__ raises:
\* end_track at one of its two writes, or, with the track ended, the write
\* of the end tag of the root or the closing of the file.
Reraise ==
    /\ run.device = "faulty"
    /\ \/ /\ pc = "start"
          /\ output' \in {<<>>, <<Elem("?xml")>>} \cup
                          {SubSeq(HeaderElems, 1, k) \o t :
                               k \in 2..3, t \in {<<>>, <<Elem("/gpx")>>}}
          /\ track_started' = FALSE
       \/ /\ pc = "next"
          /\ files = <<>>
          /\ LET Partial(e) == \E k \in 0..Len(e) :
                                  /\ output' = output \o SubSeq(e, 1, k)
                                  /\ track_started' = (track_started /\ k < Len(EndTrackElems))
             IN  Partial((IF track_started THEN EndTrackElems ELSE <<>>) \o <<Elem("/gpx")>>)
    /\ pc' = "raised"
    /\ UNCHANGED <<sentences, pos, current_data, points, written,
                   files, lines, lpos, strict, run>>

\* ReadFile as it would be if a failing file ended the loop over the files
ReadFileAbort ==
    /\ pc = "next"
    /\ files # <<>>
    /\ LET Read(n, c) ==
               \E k \in 0..Len(c), fails \in BOOLEAN :
                   /\ Disk[n].readable \/ (k = 0 /\ fails)
                   /\ ~fails => k = Len(c)
                   /\ sentences' = SubSeq(c, 1, k)
                   /\ run' = [run EXCEPT !.file = n, !.failing = fails]
                   /\ files' = IF fails THEN <<>> ELSE Tail(files)
       IN  Read(Head(files), Load(NextPass, Head(files)))
    /\ pos' = 0
    /\ current_data' = EmptyData
    /\ pc' = "group"
    /\ UNCHANGED <<points, written, output, track_started, lines, lpos, strict>>

\* the next pass of "for input_file in sorted_files": a new stream and a
\* new generator over the next file.  The stream will yield the sentences
\* of the file to its end, or raise after any number of them; it raises at
\* once for a file that cannot be opened.
ReadFile ==
    /\ pc = "next"
    /\ files # <<>>
    /\ LET Read(n, c) ==
               \E k \in 0..Len(c), fails \in BOOLEAN :
                   /\ Disk[n].readable \/ (k = 0 /\ fails)
                   /\ ~fails => k = Len(c)
                   /\ sentences' = SubSeq(c, 1, k)
                   /\ run' = [run EXCEPT !.file = n, !.failing = fails]
       IN  Read(Head(files), Load(NextPass, Head(files)))
    /\ files' = Tail(files)
    /\ pos' = 0
    /\ current_data' = EmptyData
    /\ pc' = "group"
    /\ UNCHANGED <<points, written, output, track_started, lines, lpos, strict>>

\* the stream ends: the generator runs the statements after its loop
StreamEnds ==
    /\ ~run.failing
    /\ GroupFinish

\* the stream raises: the exception passes through the generator, which
\* yields nothing more, to the handler of the pass, which logs the file
\* and goes on to the next file
StreamRaises ==
    /\ pc = "group"
    /\ written = Len(points)
    /\ pos = Len(sentences)
    /\ run.failing
    /\ run' = [run EXCEPT !.errors = Append(@, run.file)]
    /\ pc' = "next"
    /\ UNCHANGED <<sentences, pos, current_data, points, written, output, track_started,
                   files, lines, lpos, strict>>

\* writer.add_trackpoint raises on a faulty device after any part of its
\* writes; the generator is left suspended at its yield, the handler of the
\* pass logs the file and goes on to the next file, and the point is
\* consumed
AddTrackpointRaises ==
    /\ run.device = "faulty"
    /\ pc \in {"yield", "exhausted"}
    /\ written < Len(points)
    /\ LET Partial(e) == \E k \in 0..(Len(e) - 1) : output' = output \o SubSeq(e, 1, k)
       IN  Partial(add_trackpoint(points[written + 1]))
    /\ written' = written + 1
    /\ run' = [run EXCEPT !.errors = Append(@, run.file)]
    /\ pc' = "next"
    /\ UNCHANGED <<sentences, pos, current_data, points, track_started,
                   files, lines, lpos, strict>>

\* FileDone as it would be if every file of the loop were recorded
FileDoneAlways ==
    /\ \/ pc = "exhausted" /\ written = Len(points)
       \/ pc = "group" /\ written = Len(points) /\ pos = Len(sentences) /\ run.failing
    /\ run' = [run EXCEPT !.processed_files = Append(@, run.file)]
    /\ pc' = "next"
    /\ UNCHANGED <<sentences, pos, current_data, points, written, output, track_started,
                   files, lines, lpos, strict>>

\* the loop over the points ended without an exception:
\* processed_files.append(input_file)
FileDone ==
    /\ pc = "exhausted"
    /\ written = Len(points)
    /\ run' = [run EXCEPT !.processed_files = Append(@, run.file)]
    /\ pc' = "next"
    /\ UNCHANGED <<sentences, pos, current_data, points, written, output, track_started,
                   files, lines, lpos, strict>>

\* the loop over the files ended: GPXWriter.__exit__, then
\* conversion_successful = True
Close ==
    /\ pc = "next"
    /\ files = <<>>
    /\ output' = output \o (IF track_started THEN EndTrackElems ELSE <<>>) \o <<Elem("/gpx")>>
    /\ track_started' = FALSE
    /\ run' = [run EXCEPT !.conversion_successful = TRUE]
    /\ pc' = "closed"
    /\ UNCHANGED <<sentences, pos, current_data, points, written, files, lines, lpos, strict>>

\* the statements after the with statement: the backup, whose failure is
\* logged and dropped, and delete_source_files, which unlinks the processed
\* files one by one and logs and drops the failure of an unlink: that of a
\* file that is not removable, and that of a file listed a second time
Finish ==
    /\ pc = "closed"
    /\ LET First(q) == {i \in 1..Len(q) :
                            Disk[q[i]].removable /\ \A j \in 1..(i - 1) : q[j] # q[i]}
           Unlinked(q) == [k \in 1..Cardinality(First(q)) |->
                              q[CHOOSE i \in First(q) :
                                    Cardinality({j \in First(q) : j <= i}) = k]]
       IN  \E b \in (IF run.backup_path THEN {"made", "failed"} ELSE {""}) :
               run' = [run EXCEPT
                         !.backup = b,
                         !.deleted = IF /\ run.delete_source
                                        /\ run.conversion_successful
                                        /\ run.processed_files # <<>>
                                     THEN Unlinked(run.processed_files)
                                     ELSE <<>>]
    /\ pc' = "done"
    /\ UNCHANGED <<sentences, pos, current_data, points, written, output, track_started,
                   files, lines, lpos, strict>>

NextRun ==
    \/ Open \/ Reraise \/ ReadFile \/ GroupNext \/ GroupResume \/ StreamEnds \/ StreamRaises
    \/ AddTrackpoint \/ AddTrackpointRaises \/ FileDone \/ Close \/ Finish

SpecRun == InitRun /\ [][NextRun]_vars

TypeOK ==
    /\ pos \in 0..Len(sentences)
    /\ written \in 0..Len(points)
    /\ pc \in {"start", "group", "exhausted", "done", "parse", "write",
             "yield", "next", "closed", "raised"}

-----------------------------------------------------------------------------
(* Text *)

\* A line of a file and every Python str is a sequence of one-character
\* strings.  Byte 0 is written NUL, a byte above 127 is one of HighBytes,
\* and the double quote, the backslash and the backtick are written by name.
NUL == "NUL"

HighBytes == {"0xC3", "0xA9"}

\* the printable ASCII characters, from code 32 to code 126
Printable ==
    << " ", "!", "QUOTE", "#", "$", "%", "&", "'", "(", ")", "*", "+", ",", "-", ".", "/",
       "0", "1", "2", "3", "4", "5", "6", "7", "8", "9", ":", ";", "<", "=", ">", "?",
       "@", "A", "B", "C", "D", "E", "F", "G", "H", "I", "J", "K", "L", "M", "N", "O",
       "P", "Q", "R", "S", "T", "U", "V", "W", "X", "Y", "Z", "[", "BACKSLASH", "]", "^", "_",
       "BACKTICK", "a", "b", "c", "d", "e", "f", "g", "h", "i", "j", "k", "l", "m", "n", "o",
       "p", "q", "r", "s", "t", "u", "v", "w", "x", "y", "z", "{", "|", "}", "~" >>

\* ord(c) for an ASCII character
ord(c) ==
    CASE c = NUL  -> 0
      [] c = "\t" -> 9
      [] c = "\n" -> 10
      [] c = "\f" -> 12
      [] c = "\r" -> 13
      [] OTHER    -> 31 + (CHOOSE i \in 1..Len(Printable) : Printable[i] = c)

\* a ^ b on non-negative integers
RECURSIVE Xor(_, _)
Xor(a, b) ==
    IF a = 0 THEN b
    ELSE IF b = 0 THEN a
    ELSE ((a + b) % 2) + 2 * Xor(a \div 2, b \div 2)

HexDigits == <<"0", "1", "2", "3", "4", "5", "6", "7", "8", "9", "A", "B", "C", "D", "E", "F">>

\* f"{n:02X}" for 0 <= n < 256
Hex02(n) == <<HexDigits[(n \div 16) + 1], HexDigits[(n % 16) + 1]>>

\* c.upper() for an ASCII character
upper_char(c) ==
    IF \E i \in 66..91 : Printable[i] = c
    THEN Printable[(CHOOSE i \in 66..91 : Printable[i] = c) - 32]
    ELSE c

\* s.upper()
upper(s) == [i \in 1..Len(s) |-> upper_char(s[i])]

\* the characters str.strip() removes
IsSpace(c) == c \in {" ", "\t", "\n", "\f", "\r"}

RECURSIVE lstrip(_)
lstrip(s) == IF s # <<>> /\ IsSpace(Head(s)) THEN lstrip(Tail(s)) ELSE s

RECURSIVE rstrip(_)
rstrip(s) ==
    IF s # <<>> /\ IsSpace(s[Len(s)]) THEN rstrip(SubSeq(s, 1, Len(s) - 1)) ELSE s

\* s.strip()
strip(s) == lstrip(rstrip(s))

IsNotNul(c) == c # NUL

\* s.replace(NUL, '')
remove_nul(s) == SelectSeq(s, IsNotNul)

IsAscii(c) == c \notin HighBytes

\* line.decode('ascii', errors='ignore')
decode_ascii(s) == SelectSeq(s, IsAscii)

\* c in s
Contains(s, c) == \E i \in 1..Len(s) : s[i] = c

\* s.split(c)
RECURSIVE split(_, _)
split(s, c) ==
    IF ~Contains(s, c)
    THEN <<s>>
    ELSE LET i == CHOOSE k \in 1..Len(s) : s[k] = c /\ \A j \in 1..(k - 1) : s[j] # c
         IN  <<SubSeq(s, 1, i - 1)>> \o split(SubSeq(s, i + 1, Len(s)), c)

\* s[a:b] for 0 <= a <= b
slice(s, a, b) == SubSeq(s, a + 1, IF b < Len(s) THEN b ELSE Len(s))

-----------------------------------------------------------------------------
(* Exceptions and numbers *)

\* the outcome of an expression that may raise: the value, or the name of
\* the exception
Ok(v) == [err |-> "", val |-> <<v>>]

Raise(e) == [err |-> e, val |-> <<>>]

Raised(r) == r.err # ""

IsDigit(c) == c \in {"0", "1", "2", "3", "4", "5", "6", "7", "8", "9"}

AllDigits(s) == \A i \in 1..Len(s) : IsDigit(s[i])

\* the number a string of digits denotes
RECURSIVE DigitsValue(_)
DigitsValue(s) ==
    IF s = <<>> THEN 0
    ELSE 10 * DigitsValue(SubSeq(s, 1, Len(s) - 1)) + (ord(s[Len(s)]) - 48)

IsSign(c) == c \in {"+", "-"}

\* the string without its sign
Unsigned(s) == IF s # <<>> /\ IsSign(Head(s)) THEN Tail(s) ELSE s

SignOf(s) == IF s # <<>> /\ Head(s) = "-" THEN -1 ELSE 1

\* the digits of a numeric literal: one digit or more, with single
\* underscores allowed between two digits
IsDigitPart(s) ==
    /\ s # <<>>
    /\ \A i \in 1..Len(s) :
         \/ IsDigit(s[i])
         \/ /\ s[i] = "_"
            /\ 1 < i /\ i < Len(s)
            /\ IsDigit(s[i - 1]) /\ IsDigit(s[i + 1])

\* the digits of a digit part, and the same without the zeros that lead
\* or trail them
Digits(s) == SelectSeq(s, IsDigit)

LeadingZeros(s) ==
    IF \A i \in 1..Len(s) : s[i] = "0" THEN Len(s)
    ELSE (CHOOSE k \in 1..Len(s) : s[k] # "0" /\ \A j \in 1..(k - 1) : s[j] = "0") - 1

TrailingZeros(s) ==
    IF \A i \in 1..Len(s) : s[i] = "0" THEN Len(s)
    ELSE Len(s) - (CHOOSE k \in 1..Len(s) : s[k] # "0" /\ \A j \in (k + 1)..Len(s) : s[j] = "0")

Significant(s) == SubSeq(s, LeadingZeros(s) + 1, Len(s))

\* int(s): surrounding white space and one sign are accepted, then a digit
\* part
int(s) ==
    LET Parsed(t, u) ==
            IF IsDigitPart(u)
            THEN Ok(SignOf(t) * DigitsValue(Significant(Digits(u))))
            ELSE Raise("ValueError")
        Stripped(t) == Parsed(t, Unsigned(t))
    IN  Stripped(strip(s))

\* the first twenty digits of the decimal expansions of 2^1024 - 2^970,
\* from which on a number rounds to infinity, and of 2^-1075, up to which a
\* number rounds to zero; neither expansion ends there
OverflowDigits ==
    <<"1", "7", "9", "7", "6", "9", "3", "1", "3", "4", "8", "6", "2", "3", "1", "5", "8",
      "0", "7", "9">>

UnderflowDigits ==
    <<"2", "4", "7", "0", "3", "2", "8", "2", "2", "9", "2", "0", "6", "2", "3", "2", "7",
      "2", "0", "8">>

\* the digits a are below the digits b, read as fractions 0.a and 0.b
DigitsBelow(a, b) ==
    \E k \in 1..Len(b) :
        /\ \A j \in 1..(k - 1) : j <= Len(a) /\ a[j] = b[j]
        /\ (k > Len(a) \/ ord(a[k]) < ord(b[k]))
        /\ (k > Len(a) => \E j \in k..Len(b) : b[j] # "0")

\* the float of the digits sig (the first of them not zero) read as the
\* fraction 0.sig times 10^adj
Magnitude(neg, sig, adj) ==
    IF sig = <<>> THEN Float(neg, 0, 0)
    ELSE IF \/ adj > 309
            \/ /\ adj = 309
               /\ DigitsBelow(OverflowDigits,
                              SubSeq(sig, 1, IF Len(sig) < 20 THEN Len(sig) ELSE 20))
    THEN Infinity(neg)
    ELSE IF \/ adj < -323
            \/ /\ adj = -323
               /\ (DigitsBelow(sig, UnderflowDigits) \/ sig = UnderflowDigits)
    THEN Float(neg, 0, 0)
    ELSE Float(neg,
               DigitsValue(SubSeq(sig, 1, Len(sig) - TrailingZeros(sig))),
               Len(sig) - TrailingZeros(sig) - adj)

\* float(s): surrounding white space and one sign are accepted, then inf,
\* infinity or nan in any case, or a decimal literal: digit parts around
\* at most one point, one of them at least, and an optional exponent
float(s) ==
    LET Exponent(x) ==
            IF x = <<>> THEN Raise("ValueError")
            ELSE IF IsDigitPart(Unsigned(x))
            THEN Ok(SignOf(x) * DigitsValue(Significant(Digits(Unsigned(x)))))
            ELSE Raise("ValueError")
        Value(neg, whole, fraction, exp) ==
            LET Sized(all) ==
                    Magnitude(neg, Significant(all),
                              Len(all) - LeadingZeros(all) - Len(fraction) + exp)
            IN  Ok(Sized(whole \o fraction))
        Literal(neg, parts, exp) ==
            IF /\ Len(parts) <= 2
               /\ \A i \in 1..Len(parts) : parts[i] = <<>> \/ IsDigitPart(parts[i])
               /\ \E i \in 1..Len(parts) : parts[i] # <<>>
               /\ ~Raised(exp)
            THEN Value(neg, Digits(parts[1]),
                       IF Len(parts) = 2 THEN Digits(parts[2]) ELSE <<>>, exp.val[1])
            ELSE Raise("ValueError")
        Marked(neg, u, marks) ==
            IF marks = {}
            THEN Literal(neg, split(u, "."), Ok(0))
            ELSE LET k == CHOOSE i \in marks : \A j \in marks : i <= j
                 IN  Literal(neg, split(SubSeq(u, 1, k - 1), "."),
                             Exponent(SubSeq(u, k + 1, Len(u))))
        Named(neg, u) ==
            IF upper(u) \in {<<"I", "N", "F">>, <<"I", "N", "F", "I", "N", "I", "T", "Y">>}
            THEN Ok(Infinity(neg))
            ELSE IF upper(u) = <<"N", "A", "N">>
            THEN Ok(NaN)
            ELSE Marked(neg, u, {i \in 1..Len(u) : u[i] \in {"e", "E"}})
        Stripped(t) == Named(SignOf(t) = -1, Unsigned(t))
    IN  Stripped(strip(s))

-----------------------------------------------------------------------------
(* Sentence decoders *)

\* the index i of a Python list is in range
HasIndex(sentence, i) == i < Len(sentence)

\* sentence[i], for an index in range
At(sentence, i) == sentence[i + 1]

\* the first exception of a sequence of outcomes, "" if none raised
FirstError(rs) ==
    IF \E k \in 1..Len(rs) : Raised(rs[k])
    THEN rs[CHOOSE k \in 1..Len(rs) : Raised(rs[k]) /\ \A j \in 1..(k - 1) : ~Raised(rs[j])].err
    ELSE ""

\* the outcome, with its value made an Optional
OkSome(r) == IF Raised(r) THEN r ELSE Ok(Some(r.val[1]))

\* float(sentence[i]) if sentence[i] else None
OptFloat(sentence, i) ==
    IF ~HasIndex(sentence, i) THEN Raise("IndexError")
    ELSE IF At(sentence, i) = <<>> THEN Ok(None)
    ELSE OkSome(float(At(sentence, i)))

\* float(sentence[i]) if len(sentence) > i and sentence[i] else None
GuardedOptFloat(sentence, i) ==
    IF HasIndex(sentence, i) THEN OptFloat(sentence, i) ELSE Ok(None)

\* int(sentence[i]) if sentence[i] else None
OptInt(sentence, i) ==
    IF ~HasIndex(sentence, i) THEN Raise("IndexError")
    ELSE IF At(sentence, i) = <<>> THEN Ok(None)
    ELSE OkSome(int(At(sentence, i)))

\* int(sentence[i]) if len(sentence) > i and sentence[i] else None
GuardedOptInt(sentence, i) ==
    IF HasIndex(sentence, i) THEN OptInt(sentence, i) ELSE Ok(None)

\* NMEASentence.__init__: the attributes every sentence object has; those
\* of the subclasses are absent until a decoder sets them
NMEASentence(cls, talker, sentence, checksum, sentence_type) ==
    [talker |-> talker, sentence |-> sentence, checksum |-> checksum,
     sentence_type |-> sentence_type, is_valid |-> TRUE,
     status |-> FALSE, mode_auto |-> <<>>,
     num_messages |-> None, msg_num |-> None, sats_in_view |-> None]
    @@ Sentence(cls, None, None, None, None, None, None)

\* the time of day of a field hhmmss: the try block of the decoders, in
\* which every ValueError leaves the time absent
parse_time(s) ==
    LET Time(hour, minute, second) ==
            IF Raised(hour) \/ Raised(minute) \/ Raised(second)
            THEN None
            ELSE IF /\ hour.val[1] \in 0..23
                    /\ minute.val[1] \in 0..59
                    /\ second.val[1] \in 0..59
            THEN Some(TimeOfDay(hour.val[1], minute.val[1], second.val[1]))
            ELSE None
    IN  Time(int(slice(s, 0, 2)), int(slice(s, 2, 4)), int(slice(s, 4, 6)))

IsLeap(y) == y % 4 = 0 /\ (y % 100 # 0 \/ y % 400 = 0)

DaysInMonth(y, m) ==
    IF m = 2 THEN (IF IsLeap(y) THEN 29 ELSE 28)
    ELSE IF m \in {4, 6, 9, 11} THEN 30 ELSE 31

\* the date of a field ddmmyy, in the century 2000: every ValueError
\* leaves the date absent
parse_date(s) ==
    LET Date(day, month, yy) ==
            IF Raised(day) \/ Raised(month) \/ Raised(yy)
            THEN None
            ELSE LET year == 2000 + yy.val[1]
                 IN  IF /\ year \in 1..9999
                        /\ month.val[1] \in 1..12
                        /\ day.val[1] \in 1..DaysInMonth(year, month.val[1])
                     THEN Some(<<year, month.val[1], day.val[1]>>)
                     ELSE None
    IN  Date(int(slice(s, 0, 2)), int(slice(s, 2, 4)), int(slice(s, 4, 6)))

\* decode_degrees as it would be if the minutes were hundredths of a degree
decode_degreesCentesimal(raw, hemisphere, neg) ==
    LET Signed(value) == Ok(IF hemisphere = <<neg>> THEN Negated(value) ELSE value)
        Minutes(lat, deg, rest) ==
            Signed(Angle(lat.neg /\ (deg # 0 \/ rest.m # 0), deg, rest.m, rest.e))
        Split(lat, m, e, deg) ==
            Minutes(lat, deg, Decimal(6 * (IF deg = 0 THEN m ELSE m - (deg * Pow10(e + 2))), e + 1))
        Finite(lat, m, e) == Split(lat, m, e, IF e + 2 > 9 THEN 0 ELSE m \div Pow10(e + 2))
        Decoded(r) ==
            IF Raised(r) THEN r
            ELSE IF r.val[1].kind = "nan" THEN Raise("ValueError")
            ELSE IF r.val[1].kind = "inf" THEN Raise("OverflowError")
            ELSE IF r.val[1].e < 0
            THEN Finite(r.val[1], r.val[1].m * Pow10(-r.val[1].e), 0)
            ELSE Finite(r.val[1], r.val[1].m, r.val[1].e)
    IN  Decoded(float(raw))

\* the decimal degrees of a field ddmm.mmmm and its hemisphere letter:
\* lat = float(field), lat_deg = int(lat / 100), lat_min = lat - (lat_deg *
\* 100) and lat_deg + (lat_min / 60), negated for the letter neg.  int() of
\* a NaN raises ValueError and of an infinity OverflowError; the sum of a
\* zero and a negative zero is the positive zero.  The sixtieth of a
\* lat_min of 30 units of 2^-1074 or fewer is nearest to zero, half a unit
\* being rounded to the even neighbour, and lat is so small for a field
\* below 61 * 2^-1075: Least holds the first twenty digits of the decimal
\* expansion of that number, 1.5069...e-322, which does not end there.
decode_degrees(raw, hemisphere, neg) ==
    LET Signed(value) == Ok(IF hemisphere = <<neg>> THEN Negated(value) ELSE value)
        Least ==
            <<"1", "5", "0", "6", "9", "0", "0", "2", "1", "9", "8", "1", "5", "8", "0", "1", "9", "5", "9", "7">>
        Vanishing(sig, adj) == adj < -321 \/ (adj = -321 /\ DigitsBelow(sig, Least))
        Minutes(lat, deg, rest) ==
            IF deg = 0 /\ (rest.m = 0 \/ Vanishing(DigitsOf(rest.m), Len(DigitsOf(rest.m)) - rest.e))
            THEN Signed(Angle(FALSE, 0, 0, 0))
            ELSE Signed(Angle(lat.neg, deg, rest.m, rest.e))
        Split(lat, m, e, deg) ==
            Minutes(lat, deg, Decimal(IF deg = 0 THEN m ELSE m - (deg * Pow10(e + 2)), e))
        Finite(lat, m, e) == Split(lat, m, e, IF e + 2 > 9 THEN 0 ELSE m \div Pow10(e + 2))
        Decoded(r) ==
            IF Raised(r) THEN r
            ELSE IF r.val[1].kind = "nan" THEN Raise("ValueError")
            ELSE IF r.val[1].kind = "inf" THEN Raise("OverflowError")
            ELSE IF r.val[1].e < 0
            THEN Finite(r.val[1], r.val[1].m * Pow10(-r.val[1].e), 0)
            ELSE Finite(r.val[1], r.val[1].m, r.val[1].e)
    IN  Decoded(float(raw))

\* abs(x) <= d, abs(x) == d and abs(x) < 0.0001 for a coordinate x and a
\* whole number of degrees d
AtMostDegrees(x, d) ==
    \/ x.deg < d - 1
    \/ /\ x.deg = d - 1
       /\ (IF x.e >= 8 THEN TRUE
           ELSE IF x.e < 0 THEN x.m * Pow10(-x.e) <= 60
           ELSE x.m <= 60 * Pow10(x.e))
    \/ x.deg = d /\ x.m = 0

AtDegrees(x, d) ==
    \/ x.deg = d /\ x.m = 0
    \/ x.deg = d - 1 /\ x.m = 6 /\ x.e = -1

NearZero(x) ==
    /\ x.deg = 0
    /\ (IF x.e >= 12 THEN TRUE
        ELSE IF x.e >= 3 THEN x.m < 6 * Pow10(x.e - 3)
        ELSE x.m * Pow10(3 - x.e) < 6)

validate_latitude(lat) == AtMostDegrees(lat, 90)

validate_longitude(lon) == AtMostDegrees(lon, 180)

\* the messages detect_gps_errors returns
detect_gps_errors(lat, lon) ==
    (IF ~IsTrue(lat) /\ ~IsTrue(lon)
     THEN {"Zero coordinates detected (likely GPS startup)",
           "Coordinates at null island (0,0) - likely invalid"}
     ELSE IF NearZero(lat) /\ NearZero(lon)
     THEN {"Coordinates very close to zero (suspicious)"}
     ELSE {})
    \cup (IF AtDegrees(lat, 90) THEN {"Latitude at pole - verify if correct"} ELSE {})
    \cup (IF AtDegrees(lon, 180)
          THEN {"Longitude at 180th meridian - verify if correct"} ELSE {})

\* should_reject_coordinates as it would be if the advisory messages rejected too
should_reject_coordinatesAnyMessage(lat, lon, strict_validation) ==
    strict_validation /\ detect_gps_errors(lat, lon) # {}

should_reject_coordinates(lat, lon, strict_validation) ==
    IF ~strict_validation
    THEN FALSE
    ELSE \E error \in {"Zero coordinates detected (likely GPS startup)",
                       "Coordinates very close to zero (suspicious)",
                       "Coordinates at null island (0,0) - likely invalid"} :
            error \in detect_gps_errors(lat, lon)

\* the latitude and longitude attributes the two position decoders end
\* with, from the outcomes of the two decode_degrees calls (Ok(None) for a
\* coordinate whose fields are empty or missing)
position(lat, lon, strict_validation) ==
    IF Raised(lat) THEN lat
    ELSE IF Raised(lon) THEN lon
    ELSE LET latitude ==
                 IF IsSome(lat.val[1]) /\ validate_latitude(lat.val[1][1])
                 THEN lat.val[1] ELSE None
             valid_lon == IsSome(lon.val[1]) /\ validate_longitude(lon.val[1][1])
             reject == /\ valid_lon
                       /\ IsSome(latitude)
                       /\ should_reject_coordinates(latitude[1], lon.val[1][1], strict_validation)
         IN  Ok([latitude  |-> IF reject THEN None ELSE latitude,
                 longitude |-> IF valid_lon /\ ~reject THEN lon.val[1] ELSE None])

\* the fields of a coordinate are read: both are non-empty
BothSet(sentence, i, j) == At(sentence, i) # <<>> /\ At(sentence, j) # <<>>

\* RMC.__init__
RMC_init(talker, sentence, checksum, sentence_type, strict_validation) ==
    IF ~HasIndex(sentence, 0)
    THEN Raise("IndexError")
    ELSE
    LET lat == IF Len(sentence) > 3 /\ BothSet(sentence, 2, 3)
               THEN OkSome(decode_degrees(At(sentence, 2), At(sentence, 3), "S"))
               ELSE Ok(None)
        lon == IF Len(sentence) > 5 /\ BothSet(sentence, 4, 5)
               THEN OkSome(decode_degrees(At(sentence, 4), At(sentence, 5), "W"))
               ELSE Ok(None)
        Signed(r) ==
            IF Raised(r) THEN r
            ELSE Ok(Some(IF Len(sentence) > 10 /\ At(sentence, 10) = <<"W">>
                         THEN Negated(r.val[1]) ELSE r.val[1]))
        Object(e, pos_, speed, course, mag_var) ==
            IF e # ""
            THEN Raise(e)
            ELSE Ok([NMEASentence("RMC", talker, sentence, checksum, sentence_type) EXCEPT
                       !.time      = IF At(sentence, 0) # <<>> THEN parse_time(At(sentence, 0)) ELSE None,
                       !.date      = IF Len(sentence) > 8 /\ At(sentence, 8) # <<>>
                                     THEN parse_date(At(sentence, 8)) ELSE None,
                       !.status    = Len(sentence) > 1 /\ At(sentence, 1) = <<"A">>,
                       !.latitude  = pos_.val[1].latitude,
                       !.longitude = pos_.val[1].longitude,
                       !.speed     = speed.val[1],
                       !.course    = course.val[1],
                       !.mag_var   = mag_var.val[1]])
        Attributes(pos_, speed, course, mag_var) ==
            Object(FirstError(<<pos_, speed, course, mag_var>>), pos_, speed, course, mag_var)
    IN  Attributes(position(lat, lon, strict_validation),
                   GuardedOptFloat(sentence, 6),
                   GuardedOptFloat(sentence, 7),
                   IF Len(sentence) > 9 /\ At(sentence, 9) # <<>>
                   THEN Signed(float(At(sentence, 9)))
                   ELSE Ok(None))

\* GGA.__init__: the fields 0 to 8 are read without a test of the length
\* of the list, in the order of the statements: the time, the two fields
\* of the latitude (the second only if the first is set) and its number,
\* those of the longitude, then the fields 5 to 8
GGA_init(talker, sentence, checksum, sentence_type, strict_validation) ==
    LET Coordinate(i, j, neg) ==
            IF ~HasIndex(sentence, i) THEN Raise("IndexError")
            ELSE IF At(sentence, i) = <<>> THEN Ok(None)
            ELSE IF ~HasIndex(sentence, j) THEN Raise("IndexError")
            ELSE IF At(sentence, j) = <<>> THEN Ok(None)
            ELSE OkSome(decode_degrees(At(sentence, i), At(sentence, j), neg))
        Object(e, pos_, fix_quality, num_sats, hdop, altitude,
               geoid_height, dgps_update, dgps_station) ==
            IF e # ""
            THEN Raise(e)
            ELSE Ok([NMEASentence("GGA", talker, sentence, checksum, sentence_type) EXCEPT
                       !.time         = IF At(sentence, 0) # <<>> THEN parse_time(At(sentence, 0)) ELSE None,
                       !.latitude     = pos_.val[1].latitude,
                       !.longitude    = pos_.val[1].longitude,
                       !.fix_quality  = fix_quality.val[1],
                       !.num_sats     = num_sats.val[1],
                       !.hdop         = hdop.val[1],
                       !.altitude     = altitude.val[1],
                       !.geoid_height = geoid_height.val[1],
                       !.dgps_update  = dgps_update.val[1],
                       !.dgps_station = dgps_station.val[1]])
        Attributes(time_, pos_, fix_quality, num_sats, hdop, altitude,
                   geoid_height, dgps_update, dgps_station) ==
            Object(FirstError(<<time_, pos_, fix_quality, num_sats, hdop, altitude,
                                geoid_height, dgps_update, dgps_station>>),
                   pos_, fix_quality, num_sats, hdop, altitude,
                   geoid_height, dgps_update, dgps_station)
    IN  Attributes(IF HasIndex(sentence, 0) THEN Ok(None) ELSE Raise("IndexError"),
                   position(Coordinate(1, 2, "S"), Coordinate(3, 4, "W"), strict_validation),
                   OptInt(sentence, 5),
                   OptInt(sentence, 6),
                   OptFloat(sentence, 7),
                   OptFloat(sentence, 8),
                   GuardedOptFloat(sentence, 10),
                   GuardedOptFloat(sentence, 12),
                   GuardedOptInt(sentence, 13))

\* the indices 2 to 13 of the satellite identifiers that are in range and
\* not empty, in order
SvIndices(sentence) ==
    LET Used(i) == HasIndex(sentence, i) /\ At(sentence, i) # <<>>
    IN  SelectSeq(<<2, 3, 4, 5, 6, 7, 8, 9, 10, 11, 12, 13>>, Used)

\* GSA.__init__
GSA_init(talker, sentence, checksum, sentence_type) ==
    LET Object(e, mode_fix_type, sv_ids, pdop, hdop, vdop) ==
            IF e # ""
            THEN Raise(e)
            ELSE Ok([NMEASentence("GSA", talker, sentence, checksum, sentence_type) EXCEPT
                       !.mode_auto     = At(sentence, 0),
                       !.mode_fix_type = mode_fix_type.val[1],
                       !.sv_ids        = [k \in 1..Len(sv_ids) |-> sv_ids[k].val[1]],
                       !.pdop          = pdop.val[1],
                       !.hdop          = hdop.val[1],
                       !.vdop          = vdop.val[1]])
        Attributes(mode_fix_type, sv_ids, pdop, hdop, vdop) ==
            Object(FirstError(<<mode_fix_type>> \o sv_ids \o <<pdop, hdop, vdop>>),
                   mode_fix_type, sv_ids, pdop, hdop, vdop)
        Identifiers(idx) == [k \in 1..Len(idx) |-> int(At(sentence, idx[k]))]
    IN  Attributes(OptInt(sentence, 1),
                   Identifiers(SvIndices(sentence)),
                   GuardedOptFloat(sentence, 14),
                   GuardedOptFloat(sentence, 15),
                   GuardedOptFloat(sentence, 16))

\* VTG.__init__
VTG_init(talker, sentence, checksum, sentence_type) ==
    LET Object(e, true_track, mag_track, speed_knots, speed_kmh) ==
            IF e # ""
            THEN Raise(e)
            ELSE Ok([NMEASentence("VTG", talker, sentence, checksum, sentence_type) EXCEPT
                       !.true_track  = true_track.val[1],
                       !.mag_track   = mag_track.val[1],
                       !.speed_knots = speed_knots.val[1],
                       !.speed_kmh   = speed_kmh.val[1]])
        Attributes(true_track, mag_track, speed_knots, speed_kmh) ==
            Object(FirstError(<<true_track, mag_track, speed_knots, speed_kmh>>),
                   true_track, mag_track, speed_knots, speed_kmh)
    IN  Attributes(OptFloat(sentence, 0),
                   OptFloat(sentence, 2),
                   OptFloat(sentence, 4),
                   OptFloat(sentence, 6))

\* int(sentence[i]), read without a test of the length or of the content
IntAt(sentence, i) ==
    IF HasIndex(sentence, i) THEN int(At(sentence, i)) ELSE Raise("IndexError")

\* the first field of each of the four satellite blocks that is complete
\* and has a satellite number, in order
SatBases(sentence) ==
    LET Used(b) == (b + 3 < Len(sentence)) /\ At(sentence, b) # <<>>
    IN  SelectSeq(<<3, 7, 11, 15>>, Used)

\* GSV.__init__
GSV_init(talker, sentence, checksum, sentence_type) ==
    LET Object(e, num_messages, msg_num, sats_in_view, sats) ==
            IF e # ""
            THEN Raise(e)
            ELSE Ok([NMEASentence("GSV", talker, sentence, checksum, sentence_type) EXCEPT
                       !.num_messages = Some(num_messages.val[1]),
                       !.msg_num      = Some(msg_num.val[1]),
                       !.sats_in_view = Some(sats_in_view.val[1]),
                       !.sat_data     = [k \in 1..Len(sats) |->
                                           [prn       |-> sats[k][1].val[1],
                                            elevation |-> sats[k][2].val[1],
                                            azimuth   |-> sats[k][3].val[1],
                                            snr       |-> sats[k][4].val[1]]]])
        Attributes(num_messages, msg_num, sats_in_view, sats) ==
            Object(FirstError(<<num_messages, msg_num, sats_in_view>>
                              \o [k \in 1..Len(sats) |-> Raise(FirstError(sats[k]))]),
                   num_messages, msg_num, sats_in_view, sats)
        Satellites(bases) ==
            [k \in 1..Len(bases) |->
                <<int(At(sentence, bases[k])),
                  OptInt(sentence, bases[k] + 1),
                  OptInt(sentence, bases[k] + 2),
                  OptInt(sentence, bases[k] + 3)>>]
    IN  Attributes(IntAt(sentence, 0), IntAt(sentence, 1), IntAt(sentence, 2),
                   Satellites(SatBases(sentence)))

-----------------------------------------------------------------------------
(* NMEASentence.parse and parse_nmea_stream *)

\* the exclusive-or of the codes of the characters i to j of s; the order
\* in which the characters are combined does not change the result
RECURSIVE XorRange(_, _, _)
XorRange(s, i, j) ==
    IF i > j THEN 0
    ELSE IF i = j THEN ord(s[i])
    ELSE LET m == (i + j) \div 2
         IN  Xor(XorRange(s, i, m), XorRange(s, m + 1, j))

\* the exclusive-or of the codes of the characters of s
XorAll(s) == XorRange(s, 1, Len(s))

\* the classes of SENTENCE_TYPES, by type code
SENTENCE_TYPES ==
    {<<"R", "M", "C">>, <<"G", "G", "A">>, <<"G", "S", "A">>, <<"V", "T", "G">>,
     <<"G", "S", "V">>}

\* the constructor call of parse as it would be if a type code without a
\* class were an error
constructKnownOnly(talker, sentence_data, checksum, sentence_type, strict_validation) ==
    CASE sentence_type = <<"R", "M", "C">> ->
             RMC_init(talker, sentence_data, checksum, sentence_type, strict_validation)
      [] sentence_type = <<"G", "G", "A">> ->
             GGA_init(talker, sentence_data, checksum, sentence_type, strict_validation)
      [] sentence_type = <<"G", "S", "A">> ->
             GSA_init(talker, sentence_data, checksum, sentence_type)
      [] sentence_type = <<"V", "T", "G">> ->
             VTG_init(talker, sentence_data, checksum, sentence_type)
      [] sentence_type = <<"G", "S", "V">> ->
             GSV_init(talker, sentence_data, checksum, sentence_type)
      [] OTHER -> Raise("KeyError")

\* the constructor call of parse: the class of the type code, or the base
\* class for a code that has none
construct(talker, sentence_data, checksum, sentence_type, strict_validation) ==
    CASE sentence_type = <<"R", "M", "C">> ->
             RMC_init(talker, sentence_data, checksum, sentence_type, strict_validation)
      [] sentence_type = <<"G", "G", "A">> ->
             GGA_init(talker, sentence_data, checksum, sentence_type, strict_validation)
      [] sentence_type = <<"G", "S", "A">> ->
             GSA_init(talker, sentence_data, checksum, sentence_type)
      [] sentence_type = <<"V", "T", "G">> ->
             VTG_init(talker, sentence_data, checksum, sentence_type)
      [] sentence_type = <<"G", "S", "V">> ->
             GSV_init(talker, sentence_data, checksum, sentence_type)
      [] OTHER ->
             Ok(NMEASentence("NMEASentence", talker, sentence_data, checksum, sentence_type))

\* the comparison of parse as it would be without .upper()
checksum_matchesCaseSensitive(sentence, checksum) ==
    Hex02(XorAll(Tail(sentence))) = strip(checksum)

\* the comparison of parse: the two hexadecimal digits of the exclusive-or
\* of the characters after the first against the checksum field
checksum_matches(sentence, checksum) ==
    Hex02(XorAll(Tail(sentence))) = upper(strip(checksum))

\* NMEASentence.parse: the sentence object, ChecksumError, or ValueError for
\* every other exception
parse(line0, strict_validation) ==
    IF line0 = <<>> \/ Head(line0) # "$"
    THEN Raise("ValueError")
    ELSE
    LET Wrapped(r) == IF Raised(r) THEN Raise("ValueError") ELSE r
        Constructed(sentence_parts, sentence_id, checksum) ==
            IF Len(sentence_id) < 5
            THEN Raise("ValueError")
            ELSE Wrapped(construct(slice(sentence_id, 0, 2), Tail(sentence_parts),
                                   strip(checksum),
                                   SubSeq(sentence_id, 3, Len(sentence_id)),
                                   strict_validation))
        Identified(sentence_parts, checksum) ==
            Constructed(sentence_parts, sentence_parts[1], checksum)
        Checked(sentence, checksum) ==
            IF ~checksum_matches(sentence, checksum)
            THEN Raise("ChecksumError")
            ELSE Identified(split(Tail(sentence), ","), checksum)
        Halves(halves) ==
            IF Len(halves) # 2
            THEN Raise("ValueError")
            ELSE Checked(halves[1], halves[2])
        Framed(line) ==
            IF ~Contains(line, "*")
            THEN Raise("ValueError")
            ELSE Halves(split(line, "*"))
    IN  Framed(strip(remove_nul(line0)))

\* one pass of the loop of parse_nmea_stream as it would be if a checksum
\* failure were not caught
stream_lineUnchecked(line, strict_validation) ==
    IF line = <<>> \/ Head(line) # "$"
    THEN <<>>
    ELSE LET Yielded(r) ==
                 IF Raised(r) /\ r.err # "ChecksumError"
                 THEN <<>>
                 ELSE IF Raised(r)
                 THEN <<NMEASentence("NMEASentence", <<>>, <<>>, <<>>, <<>>)>>
                 ELSE <<r.val[1]>>
         IN  Yielded(parse(remove_nul(strip(decode_ascii(line))), strict_validation))

\* one pass of the loop of parse_nmea_stream: the sentences it yields for
\* a line of the file, none or one
stream_line(line, strict_validation) ==
    IF line = <<>> \/ Head(line) # "$"
    THEN <<>>
    ELSE LET Yielded(r) ==
                 IF Raised(r)
                 THEN <<>>
                 ELSE IF ~r.val[1].is_valid
                 THEN <<>>
                 ELSE <<r.val[1]>>
             Read(line_str) ==
                 IF strip(line_str) = <<>>
                 THEN <<>>
                 ELSE Yielded(parse(line_str, strict_validation))
         IN  Read(remove_nul(strip(decode_ascii(line))))

-----------------------------------------------------------------------------
(* Input lines *)

\* the second RMC of gps_valid_data:
\*   $GNRMC,204416.00,A,5222.81586,N,00453.44075,E,0.947,,290425,,,A*6C
LineRMC ==
    << "$", "G", "N", "R", "M", "C", ",", "2", "0", "4", "4", "1", "6", ".", "0", "0", ",",
       "A", ",", "5", "2", "2", "2", ".", "8", "1", "5", "8", "6", ",", "N", ",", "0", "0",
       "4", "5", "3", ".", "4", "4", "0", "7", "5", ",", "E", ",", "0", ".", "9", "4", "7",
       ",", ",", "2", "9", "0", "4", "2", "5", ",", ",", ",", "A", "*", "6", "C" >>

\* the second GGA of gps_valid_data:
\*   $GNGGA,204416.00,5222.81586,N,00453.44075,E,1,08,1.69,-13.3,M,45.9,M,,*50
LineGGA ==
    << "$", "G", "N", "G", "G", "A", ",", "2", "0", "4", "4", "1", "6", ".", "0", "0", ",",
       "5", "2", "2", "2", ".", "8", "1", "5", "8", "6", ",", "N", ",", "0", "0", "4", "5",
       "3", ".", "4", "4", "0", "7", "5", ",", "E", ",", "1", ",", "0", "8", ",", "1", ".",
       "6", "9", ",", "-", "1", "3", ".", "3", ",", "M", ",", "4", "5", ".", "9", ",", "M",
       ",", ",", "*", "5", "0" >>

\* further lines of the test suite and of a receiver
ReceiverLines ==
    {
      \* the first GSA of gps_valid_data:
      \*   $GNGSA,A,3,07,11,06,20,,,,,,,,,5.54,1.69,5.28*1A
      << "$", "G", "N", "G", "S", "A", ",", "A", ",", "3", ",", "0", "7", ",", "1", "1", ",",
         "0", "6", ",", "2", "0", ",", ",", ",", ",", ",", ",", ",", ",", ",", "5", ".", "5",
         "4", ",", "1", ".", "6", "9", ",", "5", ".", "2", "8", "*", "1", "A" >>,
      \* the first VTG of gps_valid_data:
      \*   $GNVTG,,T,,M,0.947,N,1.753,K,A*37
      << "$", "G", "N", "V", "T", "G", ",", ",", "T", ",", ",", "M", ",", "0", ".", "9", "4",
         "7", ",", "N", ",", "1", ".", "7", "5", "3", ",", "K", ",", "A", "*", "3", "7" >>,
      \* a GSV with one satellite block and one without a number:
      \*   $GPGSV,3,1,11,03,03,111,00,04,15,270,*7F
      << "$", "G", "P", "G", "S", "V", ",", "3", ",", "1", ",", "1", "1", ",", "0", "3", ",",
         "0", "3", ",", "1", "1", "1", ",", "0", "0", ",", "0", "4", ",", "1", "5", ",", "2",
         "7", "0", ",", "*", "7", "F" >>,
      \* the RMC of gps_searching_data:
      \*   $GNRMC,,V,,,,,,,,,,N*4D
      << "$", "G", "N", "R", "M", "C", ",", ",", "V", ",", ",", ",", ",", ",", ",", ",", ",",
         ",", ",", "N", "*", "4", "D" >>,
      \* the GGA of gps_searching_data:
      \*   $GNGGA,,,,,,0,00,99.99,,,,,,*56
      << "$", "G", "N", "G", "G", "A", ",", ",", ",", ",", ",", ",", "0", ",", "0", "0", ",",
         "9", "9", ".", "9", "9", ",", ",", ",", ",", ",", ",", "*", "5", "6" >>
    }

\* a sentence of a type that has no decoder:
\*   $GNTXT,01,01,02,u-blox*12
LineTXT ==
    << "$", "G", "N", "T", "X", "T", ",", "0", "1", ",", "0", "1", ",", "0", "2", ",", "u",
       "-", "b", "l", "o", "x", "*", "1", "2" >>

\* a sentence with a longer type code:
\*   $PUBX00,x,1.5*4D
LineLongId ==
    << "$", "P", "U", "B", "X", "0", "0", ",", "x", ",", "1", ".", "5", "*", "4", "D" >>

\* LineRMC with its checksum in lower case:
\*   $GNRMC,204416.00,A,5222.81586,N,00453.44075,E,0.947,,290425,,,A*6c
LineLowerSum ==
    << "$", "G", "N", "R", "M", "C", ",", "2", "0", "4", "4", "1", "6", ".", "0", "0", ",",
       "A", ",", "5", "2", "2", "2", ".", "8", "1", "5", "8", "6", ",", "N", ",", "0", "0",
       "4", "5", "3", ".", "4", "4", "0", "7", "5", ",", "E", ",", "0", ".", "9", "4", "7",
       ",", ",", "2", "9", "0", "4", "2", "5", ",", ",", ",", "A", "*", "6", "c" >>

\* LineRMC without its first character:
\*   GNRMC,204416.00,A,5222.81586,N,00453.44075,E,0.947,,290425,,,A*6C
LineNoDollar ==
    << "G", "N", "R", "M", "C", ",", "2", "0", "4", "4", "1", "6", ".", "0", "0", ",", "A",
       ",", "5", "2", "2", "2", ".", "8", "1", "5", "8", "6", ",", "N", ",", "0", "0", "4",
       "5", "3", ".", "4", "4", "0", "7", "5", ",", "E", ",", "0", ".", "9", "4", "7", ",",
       ",", "2", "9", "0", "4", "2", "5", ",", ",", ",", "A", "*", "6", "C" >>

\* LineRMC with one character changed:
\*   $GNRMC,204416.00,V,5222.81586,N,00453.44075,E,0.947,,290425,,,A*6C
LineBadSum ==
    << "$", "G", "N", "R", "M", "C", ",", "2", "0", "4", "4", "1", "6", ".", "0", "0", ",",
       "V", ",", "5", "2", "2", "2", ".", "8", "1", "5", "8", "6", ",", "N", ",", "0", "0",
       "4", "5", "3", ".", "4", "4", "0", "7", "5", ",", "E", ",", "0", ".", "9", "4", "7",
       ",", ",", "2", "9", "0", "4", "2", "5", ",", ",", ",", "A", "*", "6", "C" >>

\* a line without a checksum separator:
\*   $GNRMC,204416.00,A
LineNoStar ==
    << "$", "G", "N", "R", "M", "C", ",", "2", "0", "4", "4", "1", "6", ".", "0", "0", ",",
       "A" >>

\* lines whose framing or checksum field is unusual
FramingLines ==
    {
      \* a line with two separators:
      \*   $GNTXT,a*1C*00
      << "$", "G", "N", "T", "X", "T", ",", "a", "*", "1", "C", "*", "0", "0" >>,
      \* a checksum below 16, written with two digits:
      \*   $GNTXT,0A*0C
      << "$", "G", "N", "T", "X", "T", ",", "0", "A", "*", "0", "C" >>,
      \* the same line with its checksum written with one digit:
      \*   $GNTXT,0A*C
      << "$", "G", "N", "T", "X", "T", ",", "0", "A", "*", "C" >>,
      \* LineRMC with null bytes, a byte above 127 and a line end:
      \*   $GNRMC,2044<NUL>16.00,A,5222.81586,N,<C3>00453.44075,E,0.947,,290425,,,A*6C <NUL><CR><LF>
      << "$", "G", "N", "R", "M", "C", ",", "2", "0", "4", "4", NUL, "1", "6", ".", "0", "0",
         ",", "A", ",", "5", "2", "2", "2", ".", "8", "1", "5", "8", "6", ",", "N", ",", "0xC3",
         "0", "0", "4", "5", "3", ".", "4", "4", "0", "7", "5", ",", "E", ",", "0", ".", "9",
         "4", "7", ",", ",", "2", "9", "0", "4", "2", "5", ",", ",", ",", "A", "*", "6", "C",
         " ", NUL, "\r", "\n" >>
    }

\* a sentence id of two characters:
\*   $GP,1*0A
LineShortId ==
    << "$", "G", "P", ",", "1", "*", "0", "A" >>

\* a GGA whose altitude is not a number:
\*   $GNGGA,204416.00,5222.81586,N,00453.44075,E,1,08,1.69,abc,M,45.9,M,,*02
LineGGABadAltitude ==
    << "$", "G", "N", "G", "G", "A", ",", "2", "0", "4", "4", "1", "6", ".", "0", "0", ",",
       "5", "2", "2", "2", ".", "8", "1", "5", "8", "6", ",", "N", ",", "0", "0", "4", "5",
       "3", ".", "4", "4", "0", "7", "5", ",", "E", ",", "1", ",", "0", "8", ",", "1", ".",
       "6", "9", ",", "a", "b", "c", ",", "M", ",", "4", "5", ".", "9", ",", "M", ",", ",",
       "*", "0", "2" >>

\* checksum-valid lines with a field that is not a number or with too few fields
MalformedLines ==
    {
      \* an RMC whose speed is not a number:
      \*   $GNRMC,204416.00,A,5222.81586,N,00453.44075,E,x.9,,290425,,,A*27
      << "$", "G", "N", "R", "M", "C", ",", "2", "0", "4", "4", "1", "6", ".", "0", "0", ",",
         "A", ",", "5", "2", "2", "2", ".", "8", "1", "5", "8", "6", ",", "N", ",", "0", "0",
         "4", "5", "3", ".", "4", "4", "0", "7", "5", ",", "E", ",", "x", ".", "9", ",", ",",
         "2", "9", "0", "4", "2", "5", ",", ",", ",", "A", "*", "2", "7" >>,
      \* a VTG of two fields:
      \*   $GNVTG,,T*18
      << "$", "G", "N", "V", "T", "G", ",", ",", "T", "*", "1", "8" >>,
      \* a GSA of one field:
      \*   $GNGSA,A*31
      << "$", "G", "N", "G", "S", "A", ",", "A", "*", "3", "1" >>,
      \* a GGA of seven fields:
      \*   $GNGGA,204416.00,5222.81586,N,00453.44075,E,1,08*48
      << "$", "G", "N", "G", "G", "A", ",", "2", "0", "4", "4", "1", "6", ".", "0", "0", ",",
         "5", "2", "2", "2", ".", "8", "1", "5", "8", "6", ",", "N", ",", "0", "0", "4", "5",
         "3", ".", "4", "4", "0", "7", "5", ",", "E", ",", "1", ",", "0", "8", "*", "4", "8" >>,
      \* a GSV of two fields:
      \*   $GPGSV,3,1*57
      << "$", "G", "P", "G", "S", "V", ",", "3", ",", "1", "*", "5", "7" >>,
      \* an RMC of two fields:
      \*   $GNRMC,204416.00,A*3F
      << "$", "G", "N", "R", "M", "C", ",", "2", "0", "4", "4", "1", "6", ".", "0", "0", ",",
         "A", "*", "3", "F" >>
    }

\* position lines with coordinates out of range, at zero and at the limits
CoordinateLines ==
    {
      \* an RMC with a latitude of 91 degrees:
      \*   $GNRMC,204416.00,A,9100.00000,N,00453.44075,E,0.947,,290425,,,A*61
      << "$", "G", "N", "R", "M", "C", ",", "2", "0", "4", "4", "1", "6", ".", "0", "0", ",",
         "A", ",", "9", "1", "0", "0", ".", "0", "0", "0", "0", "0", ",", "N", ",", "0", "0",
         "4", "5", "3", ".", "4", "4", "0", "7", "5", ",", "E", ",", "0", ".", "9", "4", "7",
         ",", ",", "2", "9", "0", "4", "2", "5", ",", ",", ",", "A", "*", "6", "1" >>,
      \* an RMC with a longitude of 181 degrees:
      \*   $GNRMC,204416.00,A,5222.81586,N,18100.00000,E,0.947,,290425,,,A*64
      << "$", "G", "N", "R", "M", "C", ",", "2", "0", "4", "4", "1", "6", ".", "0", "0", ",",
         "A", ",", "5", "2", "2", "2", ".", "8", "1", "5", "8", "6", ",", "N", ",", "1", "8",
         "1", "0", "0", ".", "0", "0", "0", "0", "0", ",", "E", ",", "0", ".", "9", "4", "7",
         ",", ",", "2", "9", "0", "4", "2", "5", ",", ",", ",", "A", "*", "6", "4" >>,
      \* a GGA with a latitude just beyond the south pole:
      \*   $GNGGA,204416.00,9000.00001,S,00453.44075,E,1,08,1.69,-13.3,M,45.9,M,,*40
      << "$", "G", "N", "G", "G", "A", ",", "2", "0", "4", "4", "1", "6", ".", "0", "0", ",",
         "9", "0", "0", "0", ".", "0", "0", "0", "0", "1", ",", "S", ",", "0", "0", "4", "5",
         "3", ".", "4", "4", "0", "7", "5", ",", "E", ",", "1", ",", "0", "8", ",", "1", ".",
         "6", "9", ",", "-", "1", "3", ".", "3", ",", "M", ",", "4", "5", ".", "9", ",", "M",
         ",", ",", "*", "4", "0" >>,
      \* an RMC at (0, 0):
      \*   $GNRMC,204416.00,A,0000.00000,N,00000.00000,E,0.947,,290425,,,A*69
      << "$", "G", "N", "R", "M", "C", ",", "2", "0", "4", "4", "1", "6", ".", "0", "0", ",",
         "A", ",", "0", "0", "0", "0", ".", "0", "0", "0", "0", "0", ",", "N", ",", "0", "0",
         "0", "0", "0", ".", "0", "0", "0", "0", "0", ",", "E", ",", "0", ".", "9", "4", "7",
         ",", ",", "2", "9", "0", "4", "2", "5", ",", ",", ",", "A", "*", "6", "9" >>,
      \* an RMC on the equator, its longitude not near zero:
      \*   $GNRMC,204416.00,A,0000.00000,N,00453.44075,E,0.947,,290425,,,A*69
      << "$", "G", "N", "R", "M", "C", ",", "2", "0", "4", "4", "1", "6", ".", "0", "0", ",",
         "A", ",", "0", "0", "0", "0", ".", "0", "0", "0", "0", "0", ",", "N", ",", "0", "0",
         "4", "5", "3", ".", "4", "4", "0", "7", "5", ",", "E", ",", "0", ".", "9", "4", "7",
         ",", ",", "2", "9", "0", "4", "2", "5", ",", ",", ",", "A", "*", "6", "9" >>,
      \* an RMC at the south pole on the 180th meridian:
      \*   $GNRMC,204416.00,A,9000.00000,S,18000.00000,W,0.947,,290425,,,A*66
      << "$", "G", "N", "R", "M", "C", ",", "2", "0", "4", "4", "1", "6", ".", "0", "0", ",",
         "A", ",", "9", "0", "0", "0", ".", "0", "0", "0", "0", "0", ",", "S", ",", "1", "8",
         "0", "0", "0", ".", "0", "0", "0", "0", "0", ",", "W", ",", "0", ".", "9", "4", "7",
         ",", ",", "2", "9", "0", "4", "2", "5", ",", ",", ",", "A", "*", "6", "6" >>,
      \* a GGA at (0, 0):
      \*   $GNGGA,204416.00,0000.00000,N,00000.00000,E,1,08,1.69,-13.3,M,45.9,M,,*55
      << "$", "G", "N", "G", "G", "A", ",", "2", "0", "4", "4", "1", "6", ".", "0", "0", ",",
         "0", "0", "0", "0", ".", "0", "0", "0", "0", "0", ",", "N", ",", "0", "0", "0", "0",
         "0", ".", "0", "0", "0", "0", "0", ",", "E", ",", "1", ",", "0", "8", ",", "1", ".",
         "6", "9", ",", "-", "1", "3", ".", "3", ",", "M", ",", "4", "5", ".", "9", ",", "M",
         ",", ",", "*", "5", "5" >>
    }

\* an RMC with both coordinates below 0.0001 degree:
\*   $GNRMC,204416.00,A,0000.00500,N,00000.00500,W,0.947,,290425,,,A*7B
LineRMCNearZero ==
    << "$", "G", "N", "R", "M", "C", ",", "2", "0", "4", "4", "1", "6", ".", "0", "0", ",",
       "A", ",", "0", "0", "0", "0", ".", "0", "0", "5", "0", "0", ",", "N", ",", "0", "0",
       "0", "0", "0", ".", "0", "0", "5", "0", "0", ",", "W", ",", "0", ".", "9", "4", "7",
       ",", ",", "2", "9", "0", "4", "2", "5", ",", ",", ",", "A", "*", "7", "B" >>

\* LineRMC in the other hemispheres:
\*   $GNRMC,204416.00,A,5222.81586,S,00453.44075,W,0.947,,290425,,,A*63
LineRMCSouthWest ==
    << "$", "G", "N", "R", "M", "C", ",", "2", "0", "4", "4", "1", "6", ".", "0", "0", ",",
       "A", ",", "5", "2", "2", "2", ".", "8", "1", "5", "8", "6", ",", "S", ",", "0", "0",
       "4", "5", "3", ".", "4", "4", "0", "7", "5", ",", "W", ",", "0", ".", "9", "4", "7",
       ",", ",", "2", "9", "0", "4", "2", "5", ",", ",", ",", "A", "*", "6", "3" >>

LineShapes ==
    {LineRMC, LineGGA, LineTXT, LineLongId, LineLowerSum, LineNoDollar, LineBadSum,
     LineNoStar, LineShortId, LineGGABadAltitude, LineRMCNearZero, LineRMCSouthWest}
    \cup ReceiverLines \cup FramingLines \cup MalformedLines \cup CoordinateLines

\* the lines of the longer files: sentences that are yielded and lines of
\* every kind that is skipped
StreamShapes ==
    {LineRMC, LineGGA, LineTXT, LineNoDollar, LineBadSum, LineNoStar, LineShortId,
     LineGGABadAltitude}

\* the largest number of lines of an input file
MaxLines == 3

\* the input files of the parser: every line alone, and the files of
\* lines of StreamShapes
LineInputs ==
    {<<l>> : l \in LineShapes} \cup UNION {[1..n -> StreamShapes] : n \in 1..MaxLines}

-----------------------------------------------------------------------------
(* parse_nmea_stream over the lines of a file *)

\* the file is open and no line has been read; strict is the
\* strict_validation argument
InitParse ==
    /\ lines \in LineInputs
    /\ strict \in BOOLEAN
    /\ lpos = 0
    /\ sentences = <<>>
    /\ pos = 0
    /\ current_data = EmptyData
    /\ points = <<>>
    /\ written = 0
    /\ output = <<>>
    /\ track_started = FALSE
    /\ pc = "parse"
    /\ files = <<>>
    /\ run = NoRun

\* the stream reads the next line and yields its sentence, if it has one;
\* the sentence of line number n is object number n
ParseNext ==
    /\ pc = "parse"
    /\ lpos < Len(lines)
    /\ LET Numbered(y) == [i \in 1..Len(y) |-> [y[i] EXCEPT !.id = lpos + 1]]
       IN  sentences' = sentences \o Numbered(stream_line(lines[lpos + 1], strict))
    /\ lpos' = lpos + 1
    /\ UNCHANGED <<pos, current_data, points, written, output, track_started, pc,
                   files, lines, strict, run>>

NextParse == ParseNext

SpecParse == InitParse /\ [][NextParse]_vars

-----------------------------------------------------------------------------
(* process_files, for sentences that carry measurements *)

\* The sentences of one second of a receiver, each kind present or not,
\* followed or not by the RMC of two seconds later, which ends the point
\* while the stream goes on.  A decoded measurement is absent, zero or a
\* reading of v units of 10^-d: the RMC of the valid-data test has a speed
\* of 0.947 knot and a course of 84.40 degrees, the GGA and the GSA a
\* horizontal dilution of 1.30 and of 1.69, the VTG a true track of 54.70
\* degrees and a speed of 1.753 kilometres per hour.
MeasuredInputs ==
    LET Readings(v, d) == {None, Some(Decimal(0, 0)), Some(Decimal(v, d))}
        Optional(S) == {<<>>} \cup {<<s>> : s \in S}
        MeasuredRMC ==
            {[RMC(Some(Tick(0)), Some(TestDate), Some(1), Some(1))
                EXCEPT !.speed = sp, !.course = co] :
                    sp \in Readings(947, 3), co \in Readings(8440, 2)}
        MeasuredGGA ==
            {[GGA(Some(Tick(0)), Some(1), Some(1), Some(-131), Some(8))
                EXCEPT !.hdop = h] : h \in Readings(130, 2)}
        MeasuredGSA == {[GSA EXCEPT !.hdop = h] : h \in Readings(169, 2)}
        MeasuredVTG ==
            {[VTG EXCEPT !.true_track = tt, !.speed_kmh = sk] :
                tt \in Readings(5470, 2), sk \in Readings(1753, 3)}
        LaterRMC == {RMC(Some(Tick(2)), Some(TestDate), Some(1), Some(1))}
    IN  {WithIds(r \o g \o a \o v \o n) :
            r \in Optional(MeasuredRMC), g \in Optional(MeasuredGGA),
            a \in Optional(MeasuredGSA), v \in Optional(MeasuredVTG),
            n \in Optional(LaterRMC)}

InitMeasured ==
    /\ sentences \in MeasuredInputs
    /\ pos = 0
    /\ current_data = EmptyData
    /\ points = <<>>
    /\ written = 0
    /\ output = <<>>
    /\ track_started = FALSE
    /\ pc = "start"
    /\ files = <<>>
    /\ lines = <<>> /\ lpos = 0 /\ strict = FALSE
    /\ run = NoRun

SpecMeasured == InitMeasured /\ [][Next]_vars

-----------------------------------------------------------------------------
(* Vocabulary of the properties *)

\* the identity of the sentence in a slot, 0 for an empty slot
SlotId(o) == IF IsSome(o) THEN o[1].id ELSE 0

\* the identities of the five sentences of a point or of the accumulator
SentenceIds(r) ==
    [rmc |-> SlotId(r.rmc), gga |-> SlotId(r.gga), gsa |-> SlotId(r.gsa),
     vtg |-> SlotId(r.vtg), gsv |-> SlotId(r.gsv)]

\* a PositionTime or a PositionFix is pending
Pending == IsSome(current_data.rmc) \/ IsSome(current_data.gga)

\* the transition takes a sentence and runs its iteration of the grouping
\* loop, to its end or to its yield
IsGroupNext == pc = "group" /\ pos' = pos + 1

\* the transition resumes the iteration that was suspended at its yield
IsGroupResume == pc = "yield" /\ pc' = "group"

\* the sentence of the suspended iteration
Resumed == sentences[pos]

\* the transition is the end of the grouping generator
IsGroupFinish == pc = "group" /\ pc' = "exhausted"

\* the sentence the grouping loop is about to consume
Incoming == sentences[pos + 1]

\* the points emitted by the transition
Emitted == SubSeq(points', Len(points) + 1, Len(points'))

-----------------------------------------------------------------------------
(* Properties *)

\* C1: on every finite input the run terminates; when the input is
\* exhausted the generator emits exactly one more point, holding the pending
\* sentences, if an RMC or a GGA is pending, and none otherwise; nothing is
\* emitted after that.
C1_Termination ==
    /\ <>(pc = "done")
    /\ [][ /\ IsGroupFinish =>
              IF Pending
              THEN /\ Len(Emitted) = 1
                   /\ SentenceIds(Emitted[1]) = SentenceIds(current_data)
              ELSE Emitted = <<>>
           /\ pc \in {"exhausted", "done"} => points' = points ]_vars

\* the run has ended, the final flush emitted a point with a pending GGA
\* only, and a point had been emitted before it
C1_Witness ==
    /\ pc = "done"
    /\ Len(points) >= 2
    /\ current_data.rmc = None
    /\ IsSome(current_data.gga)
    /\ SentenceIds(points[Len(points)]) = SentenceIds(current_data)

\* the incoming sentence is an RMC or a GGA with a time of day and a
\* last-seen time is recorded
TimedAfterTimed ==
    /\ IsPosition(Incoming)
    /\ IsSome(Incoming.time)
    /\ IsSome(current_data.last_time)

\* absolute difference, in seconds since midnight, between the time of the
\* incoming sentence and the last-seen time
TimeDiff ==
    LET m == Incoming.time[1]
        l == current_data.last_time[1]
    IN  Abs((m.hour * 3600 + m.minute * 60 + m.second)
            - (l.hour * 3600 + l.minute * 60 + l.second))

\* the slot of the incoming sentence's type, and the other position slot
OwnSlot(cd) == IF Incoming.type = "RMC" THEN cd.rmc ELSE cd.gga

OtherSlot(cd) == IF Incoming.type = "RMC" THEN cd.gga ELSE cd.rmc

\* the transition emitted one point holding the pending sentences, not the
\* incoming one, and the iteration is suspended at its yield, before the
\* incoming sentence is stored
FlushedThenStored ==
    /\ Len(Emitted) = 1
    /\ SentenceIds(Emitted[1]) = SentenceIds(current_data)
    /\ Incoming.id \notin {SlotId(Emitted[1].rmc), SlotId(Emitted[1].gga)}
    /\ pc' = "yield"
    /\ SentenceIds(current_data') = SentenceIds(current_data)

\* the resumed iteration cleared the pending position and VTG sentences
\* and stored its sentence
StoredAfterFlush ==
    IF Resumed.type = "RMC"
    THEN /\ SlotId(current_data'.rmc) = Resumed.id
         /\ current_data'.gga = None
         /\ current_data'.vtg = None
    ELSE /\ SlotId(current_data'.gga) = Resumed.id
         /\ current_data'.rmc = None
         /\ current_data'.vtg = None

\* the transition emitted nothing and only stored the incoming sentence
StoredOnly ==
    /\ Emitted = <<>>
    /\ pc' = "group"
    /\ SlotId(OwnSlot(current_data')) = Incoming.id
    /\ OtherSlot(current_data') = OtherSlot(current_data)
    /\ current_data'.vtg = current_data.vtg

\* C2: for an incoming RMC or GGA with a time of day, when a last-seen time
\* is recorded: a difference above the window flushes (one point built from
\* the pending state, without the incoming sentence, emitted before the
\* sentence is stored); a difference of at most the window does not flush
\* (seen wherever the same-type flush cannot fire either).  The iteration
\* that flushed stores its sentence when it is resumed.
C2_WindowFlush ==
    /\ [][ IsGroupNext /\ TimedAfterTimed =>
             /\ (TimeDiff > 1 /\ Pending) => FlushedThenStored
             /\ (TimeDiff <= 1 /\ ~(IsSome(current_data.rmc) /\ IsSome(current_data.gga)))
                   => StoredOnly ]_vars
    /\ [][ IsGroupResume => StoredAfterFlush ]_vars

\* the second sentence came more than the window after the first one, and
\* the first was emitted alone before the second was stored
C2_Witness ==
    /\ pc = "group"
    /\ pos = 2
    /\ written = 1
    /\ IsPosition(sentences[1]) /\ IsSome(sentences[1].time)
    /\ IsPosition(sentences[2]) /\ IsSome(sentences[2].time)
    /\ Abs(sentences[2].time[1].second - sentences[1].time[1].second) = 2
    /\ Len(points) = 1
    /\ {SlotId(points[1].rmc), SlotId(points[1].gga)} = {0, 1}
    /\ {SlotId(current_data.rmc), SlotId(current_data.gga)} = {0, 2}

\* no window flush fires for the incoming sentence
NoWindowFlush == ~(TimedAfterTimed /\ TimeDiff > 1)

\* C3: when no window flush fires, an incoming RMC or GGA causes a flush
\* before it is stored exactly when both an RMC and a GGA are pending; when
\* only a sentence of its own type is pending, nothing is emitted and the
\* pending sentence is replaced by the incoming one.  The flush comes
\* first: the generator is resumed with the RMC and the GGA still pending
\* and only then stores the sentence in place of its own type.
C3_SameTypeFlush ==
    /\ [][ IsGroupNext /\ IsPosition(Incoming) /\ NoWindowFlush =>
             /\ IF IsSome(current_data.rmc) /\ IsSome(current_data.gga)
                THEN FlushedThenStored
                ELSE StoredOnly
             /\ (IsSome(OwnSlot(current_data)) /\ OtherSlot(current_data) = None)
                   => /\ Emitted = <<>>
                      /\ SlotId(OwnSlot(current_data')) = Incoming.id
                      /\ OtherSlot(current_data') = None ]_vars
    /\ [][ IsGroupResume =>
             /\ Pending
             /\ Resumed.id \notin {SlotId(current_data.rmc), SlotId(current_data.gga)}
             /\ StoredAfterFlush ]_vars

\* an RMC and a GGA were pending within the window when a second RMC
\* arrived: the pair was emitted and the second RMC is pending alone
C3_Witness ==
    /\ pc = "group"
    /\ pos = 3
    /\ sentences[1].type = "RMC" /\ sentences[2].type = "GGA" /\ sentences[3].type = "RMC"
    /\ IsSome(sentences[1].time)
    /\ sentences[2].time = sentences[1].time
    /\ sentences[3].time = sentences[1].time
    /\ Len(points) = 1
    /\ SlotId(points[1].rmc) = 1 /\ SlotId(points[1].gga) = 2
    /\ SlotId(current_data.rmc) = 3 /\ current_data.gga = None

\* C4: a flush inside the loop clears the pending RMC, GGA and VTG and the
\* last-seen time before the incoming sentence is stored, and leaves the
\* pending GSA and GSV and the inherited date alone; so a GSA or GSV stays
\* in every later point until a newer one replaces it, and a VTG is in at
\* most one point.
C4_FlushFrame ==
    /\ [][ IsGroupNext /\ Emitted # <<>> =>
             /\ pc' = "yield"
             /\ current_data'.vtg = current_data.vtg
             /\ current_data'.last_time = current_data.last_time
             /\ current_data'.gsa = current_data.gsa
             /\ current_data'.gsv = current_data.gsv
             /\ current_data'.current_date = current_data.current_date ]_vars
    /\ [][ IsGroupResume =>
             /\ StoredAfterFlush
             /\ current_data'.last_time = Resumed.time
             /\ current_data'.gsa = current_data.gsa
             /\ current_data'.gsv = current_data.gsv
             /\ IsSome(current_data.current_date) => IsSome(current_data'.current_date)
             /\ current_data'.current_date # current_data.current_date
                   => Resumed.type = "RMC" /\ current_data'.current_date = Resumed.date ]_vars
    /\ [](\A i \in 1..Len(points) : \A j \in 1..Len(points) :
            i < j =>
              /\ IsSome(points[i].vtg) => points[j].vtg # points[i].vtg
              /\ IsSome(points[i].gsa) => SlotId(points[j].gsa) >= SlotId(points[i].gsa)
              /\ IsSome(points[i].gsv) => SlotId(points[j].gsv) >= SlotId(points[i].gsv))

\* two points were emitted: both hold the same GSA, the first holds a VTG
\* and the second holds none
C4_Witness ==
    /\ Len(points) = 2
    /\ IsSome(points[1].gsa)
    /\ points[2].gsa = points[1].gsa
    /\ IsSome(points[1].vtg)
    /\ points[2].vtg = None

\* the full timestamp made of date d and the time of day of t
Timestamp(d, t) == [date |-> Some(d), hour |-> t.hour, minute |-> t.minute, second |-> t.second]

\* the sentence in slot o with its time replaced by tm
WithTime(o, tm) == Some([o[1] EXCEPT !.time = tm])

\* point e is built from accumulator cd by the merge rule
MergeRule(cd, e) ==
    LET both == IsSome(cd.rmc) /\ IsSome(cd.gga)
    IN  /\ e.gsa = cd.gsa /\ e.vtg = cd.vtg /\ e.gsv = cd.gsv
        /\ IF both /\ IsSome(cd.rmc[1].time) /\ IsSome(cd.rmc[1].date)
           THEN /\ e.rmc = WithTime(cd.rmc, Some(Timestamp(cd.rmc[1].date[1], cd.rmc[1].time[1])))
                /\ e.gga = IF IsSome(cd.gga[1].time)
                           THEN WithTime(cd.gga, Some(Timestamp(cd.rmc[1].date[1], cd.gga[1].time[1])))
                           ELSE cd.gga
           ELSE IF ~both /\ IsSome(cd.gga) /\ IsSome(cd.current_date) /\ IsSome(cd.gga[1].time)
           THEN /\ e.rmc = cd.rmc
                /\ e.gga = WithTime(cd.gga, Some(Timestamp(cd.current_date[1], cd.gga[1].time[1])))
           ELSE /\ e.rmc = cd.rmc
                /\ e.gga = cd.gga

\* C5: every emitted point is built by the merge rule: with an RMC and a
\* GGA pending and the RMC carrying a date and a time, both times become
\* timestamps of the RMC date and the sentence's own time of day; with only
\* a GGA pending and an inherited date, the GGA time is stamped with the
\* inherited date; otherwise the times are left as they were.
C5_MergeRule ==
    [][ \A i \in 1..Len(Emitted) : MergeRule(current_data, Emitted[i]) ]_vars

\* a point holds an RMC and a GGA of different times of day, both stamped
\* with the date of the RMC
C5_Witness ==
    \E i \in 1..Len(points) :
        /\ IsSome(points[i].rmc) /\ IsSome(points[i].gga)
        /\ IsSome(points[i].rmc[1].time) /\ IsSome(points[i].gga[1].time)
        /\ points[i].rmc[1].time[1].date = points[i].rmc[1].date
        /\ points[i].gga[1].time[1].date = points[i].rmc[1].date
        /\ IsSome(points[i].rmc[1].date)
        /\ points[i].gga[1].time[1].second # points[i].rmc[1].time[1].second

IsTrackPoint(e) == e.tag = "trkpt"

\* the track points of the output document, in order
TrackPoints == SelectSeq(output, IsTrackPoint)

\* the value of the ele, time or sat child of the n-th track point of the
\* lines, None for a track point without that child
Child(out, n, tag) ==
    LET start == CHOOSE i \in 1..Len(out) :
                     /\ out[i].tag = "trkpt"
                     /\ Cardinality({j \in 1..i : out[j].tag = "trkpt"}) = n
        own == {j \in (start + 1)..Len(out) :
                    /\ out[j].tag = tag
                    /\ \A k \in (start + 1)..j : out[k].tag \in {"ele", "time", "sat"}}
    IN  IF own = {} THEN None ELSE out[CHOOSE j \in own : TRUE].val

\* the input is gps_valid_data: two RMC/GGA pairs one second apart
IsValidData == sentences = ValidData

\* C6: the valid-data sequence yields exactly two points and two track
\* points; the n-th track point has the coordinates of the n-th RMC, the
\* altitude of the GGA that precedes it, and a timestamp of the RMC date
\* and the RMC's own time of day; the GGA of each point is stamped with the
\* RMC date and its own time of day; the first track point reads
\* lat 52.38026433, lon 4.89067917 and ele -13.100, as the test asserts.
C6_ValidData ==
    (pc = "done" /\ IsValidData) =>
        /\ Len(points) = 2
        /\ Len(TrackPoints) = 2
        /\ \A n \in 1..2 :
             LET rmc == sentences[5 * n - 1]
                 gga == sentences[5 * n - 4]
             IN  /\ SlotId(points[n].rmc) = rmc.id
                 /\ SlotId(points[n].gga) = gga.id
                 /\ points[n].gga[1].time = Some(Timestamp(rmc.date[1], gga.time[1]))
                 /\ TrackPoints[n].lat = Formatted(rmc.latitude, 8)
                 /\ TrackPoints[n].lon = Formatted(rmc.longitude, 8)
                 /\ Child(output, n, "ele") = Formatted(gga.altitude, 3)
                 /\ Child(output, n, "time") = Some([date   |-> rmc.date[1],
                                                     hour   |-> rmc.time[1].hour,
                                                     minute |-> rmc.time[1].minute,
                                                     second |-> rmc.time[1].second])
        /\ TrackPoints[1].lat = Some(<<"5", "2", ".", "3", "8", "0", "2", "6", "4", "3", "3">>)
        /\ TrackPoints[1].lon = Some(<<"4", ".", "8", "9", "0", "6", "7", "9", "1", "7">>)
        /\ Child(output, 1, "ele") = Some(<<"-", "1", "3", ".", "1", "0", "0">>)

\* the valid-data file has been converted
C6_Witness ==
    /\ pc = "done"
    /\ IsValidData
    /\ Len(TrackPoints) = 2

\* slot o holds a sentence with a latitude and a longitude
HasCoordinates(o) == IsSome(o) /\ IsSome(o[1].latitude) /\ IsSome(o[1].longitude)

\* C7 as stated: every emitted point holds an RMC or a GGA with a
\* coordinate pair, and the searching sequence yields no point.
C7_Original ==
    /\ \A i \in 1..Len(points) :
         HasCoordinates(points[i].rmc) \/ HasCoordinates(points[i].gga)
    /\ (pc = "done" /\ sentences = SearchingData) => points = <<>>

\* C7 (amended): every emitted point holds an RMC and/or a GGA, with or
\* without coordinates; the searching sequence yields two points, neither
\* with coordinates, and no track point.
C7_Amended ==
    /\ \A i \in 1..Len(points) : IsSome(points[i].rmc) \/ IsSome(points[i].gga)
    /\ (pc = "done" /\ sentences = SearchingData) =>
          /\ Len(points) = 2
          /\ \A i \in 1..2 :
               ~HasCoordinates(points[i].rmc) /\ ~HasCoordinates(points[i].gga)
          /\ TrackPoints = <<>>

\* the searching file has been converted
C7_Witness ==
    /\ pc = "done"
    /\ sentences = SearchingData
    /\ Len(points) = 2

\* the transition hands the next point to add_trackpoint
IsAddTrackpoint == written' = written + 1

\* the point handed to add_trackpoint
NextPoint == points[written + 1]

\* the lines the transition appends to the document
Appended == SubSeq(output', Len(output) + 1, Len(output'))

\* the track points the transition writes
WrittenTrackPoints == SelectSeq(Appended, IsTrackPoint)

\* the document without track points
EmptyDocument ==
    <<Elem("?xml"), Elem("gpx"), Elem("trk"), Elem("trkseg"),
      Elem("/trkseg"), Elem("/trk"), Elem("/gpx")>>

\* no RMC or GGA sentence of the input has a coordinate pair
NoCoordinatesInInput ==
    \A i \in 1..Len(sentences) : ~(IsPosition(sentences[i]) /\ HasCoordinates(Some(sentences[i])))

\* C8: add_trackpoint writes one track point for a point whose selected
\* position source (the RMC if there is one, else the GGA) has a latitude
\* and a longitude, and writes nothing for any other point; an input
\* without coordinates yields the complete document with no track point.
C8_OnlyWithCoordinates ==
    /\ [][ IsAddTrackpoint =>
             LET sel == IF IsSome(NextPoint.rmc) THEN NextPoint.rmc ELSE NextPoint.gga
             IN  IF HasCoordinates(sel)
                 THEN /\ SubSeq(output', 1, Len(output)) = output
                      /\ Len(WrittenTrackPoints) = 1
                      /\ Appended[1].tag = "trkpt"
                      /\ Appended[1].lat = Formatted(sel[1].latitude, 8)
                      /\ Appended[1].lon = Formatted(sel[1].longitude, 8)
                 ELSE output' = output ]_vars
    /\ []((pc = "done" /\ NoCoordinatesInInput) => output = EmptyDocument)

\* an input with an RMC that has a latitude only was converted: points were
\* emitted and the document is complete and empty
C8_Witness ==
    /\ pc = "done"
    /\ Len(points) >= 1
    /\ \E i \in 1..Len(sentences) :
         sentences[i].type = "RMC" /\ IsSome(sentences[i].latitude) /\ sentences[i].longitude = None
    /\ NoCoordinatesInInput
    /\ output = EmptyDocument

\* C9 as stated: the coordinates are those of the RMC when it has a pair,
\* else those of the GGA, and a point is skipped only when neither has one.
C9_Original ==
    [][ IsAddTrackpoint =>
          LET sel == IF HasCoordinates(NextPoint.rmc) THEN NextPoint.rmc ELSE NextPoint.gga
          IN  IF HasCoordinates(sel)
              THEN /\ Len(WrittenTrackPoints) = 1
                   /\ WrittenTrackPoints[1].lat = Formatted(sel[1].latitude, 8)
                   /\ WrittenTrackPoints[1].lon = Formatted(sel[1].longitude, 8)
              ELSE output' = output ]_vars

\* C10 as stated: a track point written for a point whose RMC carries a
\* date and a time of day has a time whose date is the RMC date and whose
\* time of day is that of the position source, with or without a GGA.
C10_Original ==
    [][ (/\ IsAddTrackpoint
         /\ IsSome(NextPoint.rmc)
         /\ IsSome(NextPoint.rmc[1].date)
         /\ IsSome(NextPoint.rmc[1].time)
         /\ Len(WrittenTrackPoints) = 1)
        => Child(Appended, 1, "time") =
              Some([date   |-> NextPoint.rmc[1].date[1],
                    hour   |-> NextPoint.rmc[1].time[1].hour,
                    minute |-> NextPoint.rmc[1].time[1].minute,
                    second |-> NextPoint.rmc[1].time[1].second]) ]_vars

-----------------------------------------------------------------------------
(* The output document *)

\* the lines that open an element, and the line that closes each
CloseTag ==
    [t \in {"gpx", "trk", "trkseg", "trkpt", "extensions",
            "gpxtpx:TrackPointExtension", "nmea:satellites", "nmea:sat"} |->
       CASE t = "gpx" -> "/gpx"
         [] t = "trk" -> "/trk"
         [] t = "trkseg" -> "/trkseg"
         [] t = "trkpt" -> "/trkpt"
         [] t = "extensions" -> "/extensions"
         [] t = "gpxtpx:TrackPointExtension" -> "/gpxtpx:TrackPointExtension"
         [] t = "nmea:satellites" -> "/nmea:satellites"
         [] t = "nmea:sat" -> "/nmea:sat"]

Opening == DOMAIN CloseTag

Closing == {CloseTag[t] : t \in Opening}

\* the lines d continue a document whose open elements are st, innermost
\* last, and close all of them: every closing line closes the innermost
\* open element, and a track point opens directly inside the segment
RECURSIVE Nested(_, _)
Nested(d, st) ==
    IF d = <<>>
    THEN st = <<>>
    ELSE LET e == Head(d)
         IN  IF e.tag \in Opening
             THEN /\ (e.tag = "trkpt" => (st # <<>> /\ st[Len(st)] = "trkseg"))
                  /\ Nested(Tail(d), Append(st, e.tag))
             ELSE IF e.tag \in Closing
             THEN /\ st # <<>>
                  /\ CloseTag[st[Len(st)]] = e.tag
                  /\ Nested(Tail(d), SubSeq(st, 1, Len(st) - 1))
             ELSE Nested(Tail(d), st)

\* the number of lines of the document with a tag
CountTag(t) == Cardinality({i \in 1..Len(output) : output[i].tag = t})

\* an emitted record has coordinates: its RMC or its GGA has a latitude
\* and a longitude
RecordWithCoordinates(p) == HasCoordinates(p.rmc) \/ HasCoordinates(p.gga)

\* the emitted records that have coordinates, in the order of emission
RecordsWithCoordinates == SelectSeq(points, RecordWithCoordinates)

\* the identity of the position sentence of a record: ten times the name of
\* its file plus its line
PositionId(p) == IF IsSome(p.rmc) THEN p.rmc[1].id ELSE SlotId(p.gga)

\* C11 as stated: when process_files has completed, the document has one
\* track with one segment; its track points are, one for one and in order,
\* the emitted records that have coordinates (those of the RMC when it has
\* a pair, else those of the GGA), and the records were emitted in the
\* order of the sorted files and of the lines of each file; every element
\* opened is closed, innermost first, and each track point opens directly
\* inside the segment.
C11_Original ==
    pc = "done" =>
        /\ CountTag("trk") = 1 /\ CountTag("/trk") = 1
        /\ CountTag("trkseg") = 1 /\ CountTag("/trkseg") = 1
        /\ CountTag("gpx") = 1 /\ CountTag("/gpx") = 1
        /\ Nested(output, <<>>)
        /\ Len(TrackPoints) = Len(RecordsWithCoordinates)
        /\ \A k \in 1..Len(TrackPoints) :
             LET p == RecordsWithCoordinates[k]
                 src == IF HasCoordinates(p.rmc) THEN p.rmc[1] ELSE p.gga[1]
             IN  /\ TrackPoints[k].lat = Formatted(src.latitude, 8)
                 /\ TrackPoints[k].lon = Formatted(src.longitude, 8)
        /\ \A i, j \in 1..Len(points) :
             i < j => PositionId(points[i]) < PositionId(points[j])

-----------------------------------------------------------------------------
(* The sentence stream *)

\* the transition reads one line of the file
IsParseNext == lpos' = lpos + 1

\* the line the transition reads
RawLine == lines[lpos + 1]

\* the sentences the transition yields
YieldedNow == SubSeq(sentences', Len(sentences) + 1, Len(sentences'))

\* the text of a line: its ASCII bytes without the null bytes and without
\* the white space around them
Cleaned(l) == strip(remove_nul(strip(decode_ascii(l))))

StartsWithDollar(l) == l # <<>> /\ Head(l) = "$"

\* the positions of the checksum separators of a text
Stars(c) == {i \in 1..Len(c) : c[i] = "*"}

\* the characters strictly between the first character and the separator
\* of a text with one separator
Payload(c) == SubSeq(c, 2, (CHOOSE i \in Stars(c) : TRUE) - 1)

\* the characters after the separator
ChecksumField(c) == SubSeq(c, (CHOOSE i \in Stars(c) : TRUE) + 1, Len(c))

\* the sentences yielded so far for line number k
YieldedFor(k) == SelectSeq(sentences, LAMBDA s : s.id = k)

\* bit i of a character code
Bit(n, i) == (n \div (2 ^ i)) % 2

\* bit i of the exclusive-or of the characters of s: the parity of the
\* number of characters that have the bit
ParityBit(s, i) == Cardinality({k \in 1..Len(s) : Bit(ord(s[k]), i) = 1}) % 2

\* the exclusive-or of the characters of s, bit by bit
ChecksumOf(s) ==
    ParityBit(s, 0) + (2 * ParityBit(s, 1)) + (4 * ParityBit(s, 2)) + (8 * ParityBit(s, 3))
    + (16 * ParityBit(s, 4)) + (32 * ParityBit(s, 5)) + (64 * ParityBit(s, 6))
    + (128 * ParityBit(s, 7))

\* the hexadecimal digits, in upper and in lower case
HexChars ==
    <<"0", "1", "2", "3", "4", "5", "6", "7", "8", "9", "A", "B", "C", "D", "E", "F",
      "a", "b", "c", "d", "e", "f">>

IsHexChar(c) == \E i \in 1..Len(HexChars) : HexChars[i] = c

HexCharValue(c) ==
    LET i == CHOOSE k \in 1..Len(HexChars) : HexChars[k] = c
    IN  IF i <= 16 THEN i - 1 ELSE i - 7

\* the text has a payload whose exclusive-or is the number its checksum
\* field writes with two hexadecimal digits of either case
PassesChecksum(c) ==
    LET f == ChecksumField(c)
    IN  /\ Len(f) = 2
        /\ IsHexChar(f[1]) /\ IsHexChar(f[2])
        /\ (16 * HexCharValue(f[1])) + HexCharValue(f[2]) = ChecksumOf(Payload(c))

\* C13: for a line that starts with '$' and has one separator, parse
\* raises ChecksumError unless the exclusive-or of the characters between
\* the '$' and the '*' is the number the checksum field writes with two
\* hexadecimal digits, in either case; a line that fails yields no
\* sentence, and every sentence yielded has is_valid true.
C13_Checksum ==
    /\ [][ (IsParseNext /\ StartsWithDollar(RawLine)
            /\ Cardinality(Stars(Cleaned(RawLine))) = 1) =>
             /\ (parse(Cleaned(RawLine), strict).err # "ChecksumError")
                  <=> PassesChecksum(Cleaned(RawLine))
             /\ ~PassesChecksum(Cleaned(RawLine)) => YieldedNow = <<>> ]_vars
    /\ [](\A i \in 1..Len(sentences) : sentences[i].is_valid)

\* the line with its checksum in lower case was read and gave a sentence
C13_Witness ==
    /\ lines = <<LineLowerSum>>
    /\ lpos = 1
    /\ Len(sentences) = 1
    /\ sentences[1].is_valid
    /\ sentences[1].checksum = <<"6", "c">>

\* the comma-separated parts of the payload of a text
Parts(c) == split(Payload(c), ",")

\* the text passes its checksum and has a sentence id of five characters
\* or more
WellFramed(l) ==
    /\ StartsWithDollar(l)
    /\ Cardinality(Stars(Cleaned(l))) = 1
    /\ PassesChecksum(Cleaned(l))
    /\ Len(Parts(Cleaned(l))[1]) >= 5

\* the characters of the sentence id after the talker code
TypeCode(l) == SubSeq(Parts(Cleaned(l))[1], 3, Len(Parts(Cleaned(l))[1]))

\* the lines of StreamShapes that are skipped: no start marker, a wrong
\* checksum, no separator, a short sentence id, a field that fails decoding
SkippedShapes ==
    {LineNoDollar, LineBadSum, LineNoStar, LineShortId, LineGGABadAltitude}

\* the class of the sentence of each line of StreamShapes that is yielded
YieldedType(l) ==
    CASE l = LineRMC -> "RMC"
      [] l = LineGGA -> "GGA"
      [] l = LineTXT -> "NMEASentence"

\* the line has no start marker, not one separator, a checksum that fails
\* or a sentence id of fewer than five characters
Unframed(l) ==
    \/ ~StartsWithDollar(l)
    \/ Cardinality(Stars(Cleaned(l))) # 1
    \/ ~PassesChecksum(Cleaned(l))
    \/ Len(Parts(Cleaned(l))[1]) < 5

\* C12: reading a line leaves the sentences yielded before unchanged and
\* appends at most one sentence: none for a line that has no start marker,
\* no separator, a failing checksum or a short sentence id, none for a line
\* whose decoding raises, and otherwise the decoded sentence of the line;
\* decoding raises nothing but the two exceptions the stream catches; so
\* at any time the stream has yielded, in line order, one sentence for each
\* line read that decodes and none for the others, whatever the lines
\* around it are.
C12_StreamYields ==
    /\ [][ IsParseNext =>
             LET r == parse(Cleaned(RawLine), strict)
             IN  /\ r.err \in {"", "ValueError", "ChecksumError"}
                 /\ SubSeq(sentences', 1, Len(sentences)) = sentences
                 /\ Len(YieldedNow) <= 1
                 /\ Unframed(RawLine) => YieldedNow = <<>>
                 /\ Len(YieldedNow) = 1 =>
                      /\ YieldedNow[1].id = lpos + 1
                      /\ YieldedNow[1].talker = SubSeq(Parts(Cleaned(RawLine))[1], 1, 2)
                      /\ YieldedNow[1].sentence_type = TypeCode(RawLine)
                      /\ YieldedNow[1].sentence = Tail(Parts(Cleaned(RawLine)))
                 /\ IF StartsWithDollar(RawLine) /\ ~Raised(r)
                    THEN YieldedNow = <<[r.val[1] EXCEPT !.id = lpos + 1]>>
                    ELSE YieldedNow = <<>> ]_vars
    /\ [](\A k \in 1..lpos :
            /\ lines[k] \in SkippedShapes => YieldedFor(k) = <<>>
            /\ lines[k] \in StreamShapes \ SkippedShapes =>
                  /\ Len(YieldedFor(k)) = 1
                  /\ YieldedFor(k)[1].type = YieldedType(lines[k]))
    /\ [](\A i, j \in 1..Len(sentences) : i < j => sentences[i].id < sentences[j].id)

\* a file of three lines was read: the first and the last gave a sentence,
\* the line between them failed its checksum
C12_Witness ==
    /\ lpos = 3
    /\ lines[1] = LineGGA /\ lines[2] = LineBadSum /\ lines[3] = LineRMC
    /\ Len(sentences) = 2
    /\ sentences[1].id = 1 /\ sentences[1].type = "GGA"
    /\ sentences[2].id = 3 /\ sentences[2].type = "RMC"

\* C14: a line that passes its checksum, has a sentence id of at least
\* five characters and a type code other than RMC, GGA, GSA, VTG and GSV
\* yields one sentence of the base class, with the first two characters
\* of the id as talker, the rest as type code and the fields after the id
\* as they are in the line.
C14_GenericSentence ==
    [][ (IsParseNext /\ WellFramed(RawLine) /\ TypeCode(RawLine) \notin SENTENCE_TYPES) =>
          /\ Len(YieldedNow) = 1
          /\ YieldedNow[1].type = "NMEASentence"
          /\ YieldedNow[1].talker = SubSeq(Parts(Cleaned(RawLine))[1], 1, 2)
          /\ YieldedNow[1].sentence_type = TypeCode(RawLine)
          /\ YieldedNow[1].sentence = Tail(Parts(Cleaned(RawLine))) ]_vars

\* the line with the type code BX00 and a field that is not a number was
\* read and gave a generic sentence
C14_Witness ==
    /\ lines = <<LineLongId>>
    /\ lpos = 1
    /\ Len(sentences) = 1
    /\ sentences[1].type = "NMEASentence"
    /\ sentences[1].talker = <<"P", "U">>
    /\ sentences[1].sentence_type = <<"B", "X", "0", "0">>
    /\ sentences[1].sentence = << <<"x">>, <<"1", ".", "5">> >>

\* the attribute of a position sentence that field number i of its list
\* is decoded into
NumericAttribute(s, i) ==
    CASE s.type = "RMC" /\ i = 6  -> s.speed
      [] s.type = "RMC" /\ i = 7  -> s.course
      [] s.type = "GGA" /\ i = 5  -> s.fix_quality
      [] s.type = "GGA" /\ i = 6  -> s.num_sats
      [] s.type = "GGA" /\ i = 7  -> s.hdop
      [] s.type = "GGA" /\ i = 8  -> s.altitude
      [] s.type = "GGA" /\ i = 10 -> s.geoid_height

\* the numbers of the numeric fields of a position sentence
NumericFields(code) ==
    IF code = <<"R", "M", "C">> THEN {6, 7} ELSE {5, 6, 7, 8, 10}

\* the numeric fields of a line that are set to something that is not a
\* number
NonNumeric(l) ==
    LET data == Tail(Parts(Cleaned(l)))
    IN  {i \in NumericFields(TypeCode(l)) :
            /\ HasIndex(data, i)
            /\ At(data, i) # <<>>
            /\ Raised(float(At(data, i)))}

\* C15 as stated: an RMC or GGA line with a numeric field that is set but
\* not a number still yields its sentence, with that field absent and the
\* time of day decoded.
C15_Original ==
    [][ (/\ IsParseNext
         /\ WellFramed(RawLine)
         /\ TypeCode(RawLine) \in {<<"R", "M", "C">>, <<"G", "G", "A">>}
         /\ NonNumeric(RawLine) # {}) =>
          /\ Len(YieldedNow) = 1
          /\ \A i \in NonNumeric(RawLine) : NumericAttribute(YieldedNow[1], i) = None
          /\ YieldedNow[1].time = parse_time(At(Tail(Parts(Cleaned(RawLine))), 0)) ]_vars

\* the field list of a line: the parts of its payload after the sentence id
FieldsOf(l) == Tail(Parts(Cleaned(l)))

IsProperPrefix(a, b) == Len(a) < Len(b) /\ a = SubSeq(b, 1, Len(a))

\* the line has a type with a decoder and its field list is the beginning
\* of the field list of a line of the same type that decodes: it lacks
\* fields at the end and is sound otherwise
LacksFields(l) ==
    /\ WellFramed(l)
    /\ TypeCode(l) \in SENTENCE_TYPES
    /\ \E full \in LineShapes :
         /\ WellFramed(full)
         /\ TypeCode(full) = TypeCode(l)
         /\ stream_line(full, strict) # <<>>
         /\ IsProperPrefix(FieldsOf(l), FieldsOf(full))

\* C16 as stated: a line of one of the five decoded types that lacks
\* fields at the end still yields a sentence of its type.
C16_Original ==
    [][ (IsParseNext /\ LacksFields(RawLine)) =>
          /\ Len(YieldedNow) = 1
          /\ YieldedNow[1].sentence_type = TypeCode(RawLine)
          /\ YieldedNow[1].sentence = FieldsOf(RawLine) ]_vars

\* the line is a position sentence: an RMC or a GGA
IsPositionLine(l) ==
    WellFramed(l) /\ TypeCode(l) \in {<<"R", "M", "C">>, <<"G", "G", "A">>}

\* the number of the latitude field of a position sentence; the hemisphere
\* letter, the longitude and its letter follow it
LatIndex(l) == IF TypeCode(l) = <<"R", "M", "C">> THEN 2 ELSE 1

\* the four coordinate fields of a position line are set
HasCoordinateFields(l) ==
    /\ Len(FieldsOf(l)) > LatIndex(l) + 3
    /\ \A i \in LatIndex(l)..(LatIndex(l) + 3) : At(FieldsOf(l), i) # <<>>

\* the decimal degrees a raw field dddmm.mmmmm and its hemisphere letter
\* denote: the digits before the last two of the whole part are degrees,
\* the rest are minutes, and the letter neg makes the value negative
DegreesOf(raw, hemisphere, neg) ==
    LET whole    == DigitsValue(split(raw, ".")[1])
        fraction == IF Len(split(raw, ".")) > 1 THEN split(raw, ".")[2] ELSE <<>>
        minutes  == Decimal(((whole % 100) * Pow10(Len(fraction))) + DigitsValue(fraction),
                            Len(fraction))
    IN  Angle(hemisphere = <<neg>>, whole \div 100, minutes.m, minutes.e)

\* two coordinates are the same number: the two zeros are
SameDegrees(x, y) ==
    /\ x.deg = y.deg /\ x.m = y.m /\ x.e = y.e
    /\ (IsTrue(x) => x.neg = y.neg)

\* the coordinate is below zero, above zero
Negative(x) == x.neg /\ IsTrue(x)

Positive(x) == ~x.neg /\ IsTrue(x)

\* the latitude and the longitude the fields of a position line denote
LatitudeOf(l) ==
    DegreesOf(At(FieldsOf(l), LatIndex(l)), At(FieldsOf(l), LatIndex(l) + 1), "S")

LongitudeOf(l) ==
    DegreesOf(At(FieldsOf(l), LatIndex(l) + 2), At(FieldsOf(l), LatIndex(l) + 3), "W")

\* 90 and 180 degrees
MaxLatitude == 90

MaxLongitude == 180

LatitudeInRange(l) == AtMostDegrees(LatitudeOf(l), MaxLatitude)

LongitudeInRange(l) == AtMostDegrees(LongitudeOf(l), MaxLongitude)

\* C17 as stated: a position line whose latitude or longitude is out of
\* range yields its sentence with both coordinates absent.
C17_Original ==
    [][ (/\ IsParseNext
         /\ IsPositionLine(RawLine)
         /\ HasCoordinateFields(RawLine)
         /\ ~(LatitudeInRange(RawLine) /\ LongitudeInRange(RawLine))) =>
          /\ Len(YieldedNow) = 1
          /\ YieldedNow[1].latitude = None
          /\ YieldedNow[1].longitude = None ]_vars

\* the pair is exactly (0, 0), or both coordinates are nearer to zero than
\* 0.0001 degree (0.006 minute)
Suspicious(lat, lon) ==
    (~IsTrue(lat) /\ ~IsTrue(lon)) \/ (NearZero(lat) /\ NearZero(lon))

\* C18: the sentence of a position line whose coordinates are in range has
\* both of them absent if strict mode is on and the pair is (0, 0) or has
\* both coordinates below 0.0001 degree in absolute value, and has both of
\* them as the fields denote otherwise: in default mode always, and in
\* either mode at the poles and on the 180th meridian.
C18_StrictRejection ==
    [][ (/\ IsParseNext
         /\ IsPositionLine(RawLine)
         /\ HasCoordinateFields(RawLine)
         /\ LatitudeInRange(RawLine) /\ LongitudeInRange(RawLine)) =>
          \A i \in 1..Len(YieldedNow) :
             IF strict /\ Suspicious(LatitudeOf(RawLine), LongitudeOf(RawLine))
             THEN /\ YieldedNow[i].latitude = None
                  /\ YieldedNow[i].longitude = None
             ELSE /\ IsSome(YieldedNow[i].latitude)
                  /\ SameDegrees(YieldedNow[i].latitude[1], LatitudeOf(RawLine))
                  /\ IsSome(YieldedNow[i].longitude)
                  /\ SameDegrees(YieldedNow[i].longitude[1], LongitudeOf(RawLine)) ]_vars

\* in strict mode the line with both coordinates at 0.005 minute was
\* read: its sentence was yielded without coordinates
C18_Witness ==
    /\ strict
    /\ lines = <<LineRMCNearZero>>
    /\ lpos = 1
    /\ Len(sentences) = 1
    /\ sentences[1].latitude = None
    /\ sentences[1].longitude = None
    /\ IsSome(sentences[1].time)

\* C19: a coordinate of a yielded position sentence is the whole degrees of
\* its raw field (the whole part of the raw number divided by 100) plus the
\* remaining minutes divided by 60, negative exactly for the letters S and
\* W; the RMC line of the valid-data test decodes to the coordinates that
\* print as 52.38026433 and 4.89067917 with eight decimals.
C19_DecimalDegrees ==
    [][ (IsParseNext /\ IsPositionLine(RawLine) /\ HasCoordinateFields(RawLine)) =>
          \A i \in 1..Len(YieldedNow) :
             LET s == YieldedNow[i]
                 south == At(FieldsOf(RawLine), LatIndex(RawLine) + 1) = <<"S">>
                 west  == At(FieldsOf(RawLine), LatIndex(RawLine) + 3) = <<"W">>
             IN  /\ IsSome(s.latitude) =>
                      /\ SameDegrees(s.latitude[1], LatitudeOf(RawLine))
                      /\ (Negative(s.latitude[1]) => south)
                      /\ (Positive(s.latitude[1]) => ~south)
                 /\ IsSome(s.longitude) =>
                      /\ SameDegrees(s.longitude[1], LongitudeOf(RawLine))
                      /\ (Negative(s.longitude[1]) => west)
                      /\ (Positive(s.longitude[1]) => ~west)
                 /\ RawLine = LineRMC =>
                      /\ Formatted(s.latitude, 8)
                           = Some(<<"5", "2", ".", "3", "8", "0", "2", "6", "4", "3", "3">>)
                      /\ Formatted(s.longitude, 8)
                           = Some(<<"4", ".", "8", "9", "0", "6", "7", "9", "1", "7">>) ]_vars

\* the line of the valid-data test with the letters S and W was read: its
\* sentence has the coordinates of the test, negated
C19_Witness ==
    /\ lines = <<LineRMCSouthWest>>
    /\ lpos = 1
    /\ Len(sentences) = 1
    /\ Formatted(sentences[1].latitude, 8)
         = Some(<<"-", "5", "2", ".", "3", "8", "0", "2", "6", "4", "3", "3">>)
    /\ Formatted(sentences[1].longitude, 8)
         = Some(<<"-", "4", ".", "8", "9", "0", "6", "7", "9", "1", "7">>)

-----------------------------------------------------------------------------
(* The primary extension block *)

\* the values written under a tag for the point being added
ValuesOf(tag) ==
    LET Tagged(e) == e.tag = tag
        es == SelectSeq(Appended, Tagged)
    IN  [i \in 1..Len(es) |-> es[i].val[1]]

\* a measurement of a sentence of the point, absent when the sentence is
PrimaryField(o, field) == IF IsSome(o) THEN o[1][field] ELSE None

PresentNonZero(o) == o # None /\ IsTrue(o[1])

\* the one value a field of the primary block must carry: the preferred
\* source's when present and not zero, else the fallback's when present and
\* not zero, else nothing
\* the text written for a field: that of the preferred source, else that
\* of the fallback
Expected(preferred, first, fallback, second) ==
    IF PresentNonZero(preferred) THEN <<first[1]>>
    ELSE IF PresentNonZero(fallback) THEN <<second[1]>>
    ELSE <<>>

InMs(o) == IF IsSome(o) THEN Some(KnotsToMs(o[1])) ELSE None

KmhInMs(o) == IF IsSome(o) THEN Some(KmhToMs(o[1])) ELSE None

\* C20: in a written track point, speed, course and horizontal dilution
\* each carry the preferred source's value when it is present and not zero,
\* otherwise the fallback's when it is present and not zero, never both, and
\* a field is missing only when both of its sources are absent or zero.
C20_Original ==
    [][ (IsAddTrackpoint /\ Len(WrittenTrackPoints) = 1) =>
          LET p == points[written + 1]
          IN  /\ ValuesOf("gpxtpx:speed")
                   = Expected(PrimaryField(p.rmc, "speed"),
                              InMs(PrimaryField(p.rmc, "speed")),
                              PrimaryField(p.vtg, "speed_kmh"),
                              KmhInMs(PrimaryField(p.vtg, "speed_kmh")))
              /\ ValuesOf("gpxtpx:course")
                   = Expected(PrimaryField(p.rmc, "course"),
                              Formatted(PrimaryField(p.rmc, "course"), 2),
                              PrimaryField(p.vtg, "true_track"),
                              Formatted(PrimaryField(p.vtg, "true_track"), 2))
              /\ ValuesOf("gpxtpx:hdop")
                   = Expected(PrimaryField(p.gsa, "hdop"),
                              Formatted(PrimaryField(p.gsa, "hdop"), 2),
                              PrimaryField(p.gga, "hdop"),
                              Formatted(PrimaryField(p.gga, "hdop"), 2)) ]_vars

-----------------------------------------------------------------------------
(* The accumulator of group_nmea_points *)

\* C24: storing an incoming RMC or GGA sets the last-seen time to the time
\* of day of the sentence when it carries one, and leaves the last-seen time
\* as it was when the sentence carries none.
C24_Original ==
    [][ /\ (IsGroupNext /\ IsPosition(Incoming) /\ Emitted = <<>>) =>
             IF IsSome(Incoming.time)
             THEN current_data'.last_time = Incoming.time
             ELSE current_data'.last_time = current_data.last_time
        /\ (IsGroupResume /\ IsSome(Resumed.time)) =>
             current_data'.last_time = Resumed.time ]_vars

\* C25: after an incoming RMC that carries a date is stored, the inherited
\* date is that date, whether or not the RMC carries a time of day; no other
\* sentence and no flush changes the inherited date.
C25_Original ==
    [][ /\ (IsGroupNext /\ Emitted = <<>>) =>
             IF Incoming.type = "RMC" /\ IsSome(Incoming.date)
             THEN current_data'.current_date = Incoming.date
             ELSE current_data'.current_date = current_data.current_date
        /\ IsGroupResume =>
             IF Resumed.type = "RMC" /\ IsSome(Resumed.date)
             THEN current_data'.current_date = Resumed.date
             ELSE current_data'.current_date = current_data.current_date
        /\ (IsGroupNext /\ Emitted # <<>>) =>
             current_data'.current_date = current_data.current_date
        /\ IsGroupFinish => current_data'.current_date = current_data.current_date ]_vars

\* the identities of the RMC and the GGA of a point
PositionIds(p) ==
    (IF IsSome(p.rmc) THEN {p.rmc[1].id} ELSE {})
    \cup (IF IsSome(p.gga) THEN {p.gga[1].id} ELSE {})

HasCoordinatePair(s) == IsSome(s.latitude) /\ IsSome(s.longitude)

\* C26: every RMC or GGA of the input that has a latitude and a longitude is
\* in some emitted point once the input is exhausted, and no RMC or GGA is
\* in more than one emitted point.
C26_Original ==
    /\ pc \in {"exhausted", "done"} =>
          \A i \in 1..Len(sentences) :
             (IsPosition(sentences[i]) /\ HasCoordinatePair(sentences[i])) =>
                \E k \in 1..Len(points) : sentences[i].id \in PositionIds(points[k])
    /\ \A k, l \in 1..Len(points) :
          k # l => PositionIds(points[k]) \cap PositionIds(points[l]) = {}

\* the sentences consumed so far that are an RMC or a GGA, by position
StoredPositions == {i \in 1..pos : IsPosition(sentences[i])}

\* the RMC or GGA stored last
LastStored == sentences[CHOOSE i \in StoredPositions : \A j \in StoredPositions : j <= i]

\* C27: between two sentences, a recorded last-seen time means that an RMC or
\* a GGA is pending and that the last-seen time is the time of day of the RMC
\* or GGA stored last; so a window flush always has something to emit.
C27_LastSeenTime ==
    /\ [](pc = "group" /\ IsSome(current_data.last_time) =>
            /\ Pending
            /\ StoredPositions # {}
            /\ current_data.last_time = LastStored.time
            /\ LastStored.id \in PositionIds(current_data))
    /\ [][ (IsGroupNext /\ TimedAfterTimed /\ TimeDiff > time_window) => Len(Emitted) >= 1 ]_vars

\* an RMC and a GGA of different times of day are pending between two
\* sentences and the last-seen time is that of the GGA, stored last
C27_Witness ==
    /\ pc = "group"
    /\ pos = 2
    /\ sentences[1].type = "RMC" /\ sentences[2].type = "GGA"
    /\ IsSome(sentences[1].time) /\ IsSome(sentences[2].time)
    /\ sentences[1].time # sentences[2].time
    /\ IsSome(current_data.rmc) /\ IsSome(current_data.gga)
    /\ current_data.last_time = sentences[2].time

\* the slot of the accumulator a GSA, VTG or GSV is stored in
AuxiliarySlot(s) ==
    CASE s.type = "GSA" -> "gsa"
      [] s.type = "VTG" -> "vtg"
      [] s.type = "GSV" -> "gsv"

\* C28: one consumed sentence makes the generator emit at most one point,
\* and the iteration resumed after its yield emits no second one; a GSA,
\* VTG or GSV emits nothing and changes only its own slot; a sentence of
\* unknown type emits nothing and leaves the accumulator as it was.
C28_OneEmissionPerSentence ==
    [][ /\ IsGroupNext =>
             /\ Len(Emitted) <= 1
             /\ Incoming.type \in {"GSA", "VTG", "GSV"} =>
                   /\ Emitted = <<>>
                   /\ pc' = "group"
                   /\ current_data' = [current_data EXCEPT ![AuxiliarySlot(Incoming)] = Some(Incoming)]
             /\ Incoming.type \notin {"RMC", "GGA", "GSA", "VTG", "GSV"} =>
                   /\ Emitted = <<>>
                   /\ pc' = "group"
                   /\ current_data' = current_data
        /\ IsGroupResume => points' = points /\ pos' = pos ]_vars

\* an RMC and a GGA of the same second were pending when an RMC of a time
\* outside the window arrived: one point was emitted, the RMC is pending alone
C28_Witness ==
    /\ pc = "group"
    /\ pos = 3
    /\ sentences[1].type = "RMC" /\ sentences[2].type = "GGA" /\ sentences[3].type = "RMC"
    /\ IsSome(sentences[1].time)
    /\ sentences[2].time = sentences[1].time
    /\ IsSome(sentences[3].time)
    /\ Abs(SecondsSinceMidnight(sentences[3].time[1])
           - SecondsSinceMidnight(sentences[1].time[1])) > time_window
    /\ Len(points) = 1
    /\ SlotId(current_data.rmc) = 3 /\ current_data.gga = None

-----------------------------------------------------------------------------
(* The files of one run *)

\* the loop over the files moves to the next file
IsNextFile == pc = "exhausted" /\ pc' = "group"

\* the pass of the loop over the files that read a sentence
FileOf(id) == id \div 10

\* the passes that read the sentences of a point
FilesOf(p) ==
    {FileOf(o[1].id) : o \in {x \in {p.rmc, p.gga, p.gsa, p.vtg, p.gsv} : IsSome(x)}}

\* the points group_nmea_points yields for the sentences q, consumed with
\* accumulator cd
RECURSIVE Yields(_, _)
Yields(cd, q) ==
    IF q = <<>>
    THEN FinalFlush(cd).out
    ELSE LoopBody(cd, Head(q)).out \o Yields(LoopBody(cd, Head(q)).data, Tail(q))

\* C21: every file has its own accumulator.  When the loop moves to the next
\* file, the RMC or GGA pending at the end of the file is in the last emitted
\* point, every emitted point has been handed to the writer, and the next
\* file starts from the empty accumulator; the sentences of a point come from
\* one pass, and the points of a file are those the file yields on its own.
C21_FreshAccumulator ==
    /\ [][ IsNextFile =>
             /\ written = Len(points)
             /\ Pending => /\ points # <<>>
                           /\ PositionIds(current_data) = PositionIds(points[Len(points)])
             /\ current_data' = EmptyData ]_vars
    /\ [](\A k \in 1..Len(points) : Cardinality(FilesOf(points[k])) = 1)
    /\ [](pc = "exhausted" =>
            LET own == Yields(EmptyData, sentences)
            IN  /\ Len(own) <= Len(points)
                /\ SubSeq(points, Len(points) - Len(own) + 1, Len(points)) = own)

\* the pair pending at the end of the first file was emitted and written,
\* and the GGA of the last file is in a point of its own, its time not
\* stamped with the date of the first file
C21_Witness ==
    /\ pc = "exhausted"
    /\ run.sorted_files = <<1, 5>>
    /\ Len(points) = 2
    /\ written = 2
    /\ FilesOf(points[1]) = {1}
    /\ IsSome(points[1].rmc) /\ IsSome(points[1].gga)
    /\ FilesOf(points[2]) = {2}
    /\ points[2].rmc = None
    /\ points[2].gga[1].time[1].date = None


-----------------------------------------------------------------------------
(* The failures of one run *)

\* the lines add_trackpoint writes for the points q, one after the other
RECURSIVE LinesOf(_)
LinesOf(q) == IF q = <<>> THEN <<>> ELSE add_trackpoint(Head(q)) \o LinesOf(Tail(q))

\* the files the loop over the sorted files has reached, one for each pass
Visited == SubSeq(run.sorted_files, 1, Len(run.sorted_files) - Len(files))

\* the emitted points whose sentences were read by pass k
PointsOf(k) == SelectSeq(points, LAMBDA p : k \in FilesOf(p))

\* a pass of the loop over the files is under way
Running == pc \in {"group", "yield", "exhausted"}

\* the stream of the file being read raises
IsStreamRaises == pc = "group" /\ pc' = "next"

\* the transition records a file in processed_files
IsRecord == run'.processed_files # run.processed_files

\* the with statement has been left without an exception
Converted == pc \in {"closed", "done"}

\* C22: a failing input file does not end the run.  When the stream of a
\* file raises, the points the file yielded before are all written, the
\* document and the list of the files still to read stay as they are and the
\* track stays open; the loop reaches the sorted files one by one, a failing
\* file included, whatever was emitted or written stays, and a file read to
\* its end, after a failure or not, gives the points it yields on its own.
\* On a working output device process_files, once it has a file to read,
\* does not raise and can always go on until it returns.  When the writer
\* is closed every file has been reached, and on a working device the
\* document is the header, the lines of every emitted point and the end
\* tags of segment, track and root.
C22_FailureIsLocal ==
    /\ [][ IsStreamRaises =>
             /\ run.failing
             /\ written = Len(points)
             /\ Yields(EmptyData, sentences)
                    = PointsOf(Len(Visited)) \o FinalFlush(current_data).out
             /\ output' = output
             /\ points' = points
             /\ files' = files
             /\ track_started' ]_vars
    /\ [][ /\ Len(output) <= Len(output')
           /\ SubSeq(output', 1, Len(output)) = output
           /\ Len(points) <= Len(points')
           /\ SubSeq(points', 1, Len(points)) = points ]_vars
    /\ [][ IsRecord =>
             PointsOf(Len(Visited)) = Yields(EmptyData, Load(Len(Visited), run.file)) ]_vars
    /\ [](run.sorted_files = Visited \o files)
    /\ [](Running => run.file = Visited[Len(Visited)])
    /\ []((run.device = "ok" /\ run.sorted_files # <<>>) =>
             /\ pc # "raised"
             /\ pc # "done" => ENABLED <<NextRun>>_vars)
    /\ [](Converted =>
            /\ files = <<>>
            /\ run.device = "ok" =>
                 output = HeaderElems \o LinesOf(points) \o EndTrackElems \o <<Elem("/gpx")>>)

\* of three files the second failed after its first point: the point is in
\* the closed document between those of the first and of the third file,
\* which were read to their ends
C22_Witness ==
    /\ pc = "closed"
    /\ run.device = "ok"
    /\ run.sorted_files = <<1, 3, 5>>
    /\ run.processed_files = <<1, 5>>
    /\ Len(points) = 3
    /\ FilesOf(points[1]) = {1}
    /\ FilesOf(points[2]) = {2}
    /\ FilesOf(points[3]) = {3}
    /\ Len(TrackPoints) = 3
    /\ SubSeq(output, Len(output) - 2, Len(output))
           = <<Elem("/trkseg"), Elem("/trk"), Elem("/gpx")>>


\* the names in the list q
Names(q) == {q[i] : i \in 1..Len(q)}

\* the transition unlinks source files
IsDelete == run'.deleted # run.deleted

\* the files of q that unlink removes: those that can be removed, each at
\* the first place it is listed
Removed(q) ==
    LET first == {i \in 1..Len(q) : Disk[q[i]].removable /\ \A j \in 1..(i - 1) : q[j] # q[i]}
    IN  [k \in 1..Cardinality(first) |->
            q[CHOOSE i \in first : Cardinality({j \in first : j <= i}) = k]]

\* Files are unlinked in one step only, after the with statement has been
\* left without an exception, the writer having written the end tags and
\* closed the file, leaving the document as it is, and only when
\* delete_source was given; the unlinked files are processed files, and a
\* file is recorded as processed at the end of a pass over it, when its
\* stream has ended without raising and no add_trackpoint call of the pass
\* has raised.  When process_files raises nothing has been deleted.  When
\* it returns, the deleted files are the removable processed files if
\* delete_source was given and none otherwise, whether there was a backup
\* and whether it failed.
DeletionGate ==
    /\ [][ IsRecord =>
             /\ pc = "exhausted"
             /\ ~run.failing
             /\ pos = Len(sentences)
             /\ written = Len(points)
             /\ run'.processed_files = Append(run.processed_files, run.file) ]_vars
    /\ [][ IsDelete =>
             /\ pc = "closed"
             /\ run.conversion_successful
             /\ run.delete_source
             /\ files = <<>>
             /\ output[Len(output)] = Elem("/gpx")
             /\ output' = output ]_vars
    /\ [](Names(run.deleted) \subseteq Names(run.processed_files))
    /\ [](pc = "raised" => run.deleted = <<>> /\ ~run.conversion_successful)
    /\ [](pc = "done" =>
            run.deleted = IF run.delete_source THEN Removed(run.processed_files) ELSE <<>>)

\* C23 as stated: the deletion is gated as above; a file whose processing
\* raised, which the handler of the pass logged, is never deleted; and no
\* file is deleted when a write to the output has raised, which leaves the
\* document without the end of a track point or makes process_files raise.
C23_Original ==
    /\ DeletionGate
    /\ [](Names(run.errors) \cap Names(run.deleted) = {})
    /\ [](run.deleted # <<>> => Nested(output, <<>>))

\* C23 (amended): the deletion is gated as above, and a pass that raises,
\* through its stream or through a write of add_trackpoint, does not record
\* its file: the handler of the pass adds the file to those logged and
\* leaves the processed files as they are, so that every pass begun and
\* ended has either recorded or logged its file.  A file is deleted only if
\* some pass over it ran to its end; a file that is listed twice is deleted
\* when one pass over it ran to its end, even if the other raised, and the
\* files recorded are deleted also when a write of another pass has raised
\* and left the document without the end of a track point.
C23_Amended ==
    /\ DeletionGate
    /\ [][ run'.errors # run.errors =>
             /\ Running
             /\ run'.errors = Append(run.errors, run.file)
             /\ run'.processed_files = run.processed_files ]_vars
    /\ [](Len(run.processed_files) + Len(run.errors)
            = Len(Visited) - (IF Running THEN 1 ELSE 0))
    /\ [](Len(run.processed_files) <= Len(Visited) - (IF Running THEN 1 ELSE 0))
    /\ [](Names(run.processed_files) \subseteq Names(Visited))
    /\ []((Converted /\ run.device = "ok") => Nested(output, <<>>))

\* deletion was requested and the backup failed, on a faulty device.  The
\* first file is listed twice: its first pass ran to the end, a write of
\* the add_trackpoint call of its second pass raised after the track point
\* was opened, the writer wrote the end tags, and the file was deleted
C23_Witness ==
    /\ pc = "done"
    /\ run.device = "faulty"
    /\ run.delete_source
    /\ run.backup = "failed"
    /\ run.sorted_files = <<1, 1>>
    /\ run.processed_files = <<1>>
    /\ run.errors = <<1>>
    /\ run.deleted = <<1>>
    /\ written = 2
    /\ Len(TrackPoints) = 2
    /\ ~Nested(output, <<>>)
    /\ SubSeq(output, Len(output) - 2, Len(output))
           = <<Elem("/trkseg"), Elem("/trk"), Elem("/gpx")>>

====
